---- MODULE Spec2Model ----
(***************************************************************************)
(* Verification model of the webstor S3 client (src/s3conn.cpp and the     *)
(* s3get / s3put / s3multiget drivers).                                    *)
(*                                                                         *)
(* Part I   S3Connection: the async state machine (pend / complete /       *)
(*          cancel / destroy), the background transport and waitAny.       *)
(* Part II  S3Request: one transfer seen through the engine callbacks      *)
(*          (header, body, upload) and Request's saved-error protocol.     *)
(***************************************************************************)
EXTENDS Integers, Sequences, FiniteSets, TLC

VARIABLES
    alive,          \* [Cons -> BOOLEAN]  the S3Connection object exists
    asyncRequest,   \* [Cons -> ReqPtr]   S3Connection::m_asyncRequest
    curlOp,         \* [Cons -> OpState]  m_curl: state of the pended operation
    heapLive,       \* [Cons -> Nat]      request objects new'ed for the connection, not yet deleted
    heapFault,      \* "none" or the first misuse of a request object
    lastCall,       \* the API call that returned last, with its outcome
    wait,           \* waitAny: arguments, locals and position of the call
    fair,           \* driver that advances startFrom by one on every waitAny
    xfer            \* Part II: one request and its transfer

vars == <<alive, asyncRequest, curlOp, heapLive, heapFault, lastCall, wait, fair, xfer>>

connVars == <<alive, asyncRequest, curlOp, heapLive, heapFault>>

----------------------------------------------------------------------------
(* Bounds *)

NCon == 4                \* connections of the driver's array (waitAny)
NLife == 2               \* connections driven through every call of the life cycle
SizeMod == 8             \* size_t arithmetic is modulo SizeMod (width scaled down)

(* Platform limit of the event-wait primitive, scaled down. *)
c_maxEventCount == 3

Cons == 0 .. (NCon - 1)
LifeCons == 0 .. (NLife - 1)

NULL == "NULL"
\* asyncRequest[c] is NULL or names the dynamic type of the request: "get", "put", "del".
\* curlOp[c] is "idle", "running" or "done".

(* The locals of waitAny when no call is in progress or has just returned. *)
WaitIdle == [pc |-> "idle", count |-> 0, startFrom |-> 0, events |-> <<>>,
             scanned |-> 0, res |-> -1, doneAtCall |-> {}]

(* A returned call: the operation, the connection, whether it raised, the  *)
(* value returned, and whether the connection was pending when called.     *)
NoCall == [op |-> "none", con |-> 0, raised |-> FALSE, ret |-> 0, wasPending |-> FALSE]

Call(op, c, raised, ret) ==
    [op |-> op, con |-> c, raised |-> raised, ret |-> ret,
     wasPending |-> asyncRequest[c] # NULL]

----------------------------------------------------------------------------
(* Request objects on the heap.  heapLive[c] counts the request objects    *)
(* created by pend* on connection c and not yet deleted.                   *)

New(h, c) == [h EXCEPT ![c] = @ + 1]

Delete(h, c) == [h EXCEPT ![c] = IF @ > 0 THEN @ - 1 ELSE 0]

(* What deleting a request of connection c does wrong, given the heap and  *)
(* the transport state at the moment of the delete.                        *)
DeleteFault(h, ops, c) ==
    IF h[c] = 0 THEN "doubleFree"
    ELSE IF ops[c] = "running" THEN "freedInFlight"
    ELSE "none"

Sticky(old, new) == IF old # "none" THEN old ELSE new

----------------------------------------------------------------------------
(* m_curl: the asynchronous transport handle of a connection.              *)

pendOp(ops, c) == [ops EXCEPT ![c] = "running"]

completeOp(ops, c) == [ops EXCEPT ![c] = "idle"]

cancelOp(ops, c) == [ops EXCEPT ![c] = "idle"]

isOpCompleted(c) == curlOp[c] = "done"

(* The background pump finishes the transfer and sets the completion event. *)
transportFinish(c) ==
    /\ curlOp[c] = "running"
    /\ curlOp' = [curlOp EXCEPT ![c] = "done"]
    /\ UNCHANGED <<alive, asyncRequest, heapLive, heapFault, lastCall, wait, fair, xfer>>

----------------------------------------------------------------------------
(* S3Connection *)

isAsyncPending(c) == asyncRequest[c] # NULL

isAsyncCompleted(c) == asyncRequest[c] # NULL /\ isOpCompleted(c)

(* A call may start: the single caller thread is not inside waitAny. *)
Ready == wait.pc = "idle"

PendFail == {"none", "new", "init", "pendOp"}

(* Variant of pend that starts an operation whatever m_asyncRequest holds. *)
pend_noAssert(c, kind, op, fail) ==
    /\ Ready /\ alive[c]
    /\ fail = "none"
    /\ heapLive[c] < 2
    /\ heapLive' = New(heapLive, c)
    /\ curlOp' = pendOp(curlOp, c)
    /\ asyncRequest' = [asyncRequest EXCEPT ![c] = kind]
    /\ lastCall' = Call(op, c, FALSE, 0)
    /\ wait' = WaitIdle
    /\ UNCHANGED <<alive, heapFault, fair, xfer>>

(* pendPut / pendGet / pendDel.  fail names the statement that throws:     *)
(* the new-expression, init() or m_curl.pendOp(); "none" is success.       *)
pendConn(c, kind, op, fail) ==
    /\ Ready /\ alive[c]
    /\ asyncRequest[c] = NULL
    /\ IF fail = "none"
       THEN /\ heapLive' = New(heapLive, c)
            /\ curlOp' = pendOp(curlOp, c)
            /\ asyncRequest' = [asyncRequest EXCEPT ![c] = kind]
            /\ UNCHANGED heapFault
       ELSE IF fail = "new"
       THEN UNCHANGED <<heapLive, curlOp, asyncRequest, heapFault>>
       ELSE LET h1 == New(heapLive, c) IN
            /\ heapLive' = Delete(h1, c)
            /\ heapFault' = Sticky(heapFault, DeleteFault(h1, curlOp, c))
            /\ UNCHANGED <<curlOp, asyncRequest>>
    /\ lastCall' = Call(op, c, fail # "none", 0)
    /\ wait' = WaitIdle
    /\ UNCHANGED <<alive, fair>>

pend(c, kind, op, fail) == pendConn(c, kind, op, fail) /\ UNCHANGED xfer

pendGet(c, fail) == pend(c, "get", "pendGet", fail)

pendPut(c, fail) == pend(c, "put", "pendPut", fail)

pendDel(c, fail) == pend(c, "del", "pendDel", fail)

(* Variant of complete that clears m_asyncRequest only when it returns. *)
complete_keepOnRaise(c, op, raised) ==
    /\ Ready /\ alive[c]
    /\ asyncRequest[c] # NULL
    /\ op = "completeGet" => asyncRequest[c] = "get"
    /\ isOpCompleted(c)
    /\ curlOp' = completeOp(curlOp, c)
    /\ IF raised
       THEN UNCHANGED <<asyncRequest, heapLive>>
       ELSE /\ asyncRequest' = [asyncRequest EXCEPT ![c] = NULL]
            /\ heapLive' = Delete(heapLive, c)
    /\ lastCall' = Call(op, c, raised, 0)
    /\ wait' = WaitIdle
    /\ UNCHANGED <<alive, heapFault, fair, xfer>>

(* completePut / completeGet / completeDel: the auto_ptr takes the request, *)
(* m_asyncRequest is cleared, completeOp() waits for the transfer, the      *)
(* request is completed (it may raise) and deleted on scope exit.           *)
completeConn(c, op, raised) ==
    /\ Ready /\ alive[c]
    /\ asyncRequest[c] # NULL
    /\ op = "completeGet" => asyncRequest[c] = "get"
    /\ isOpCompleted(c)
    /\ LET ops1 == completeOp(curlOp, c) IN
       /\ asyncRequest' = [asyncRequest EXCEPT ![c] = NULL]
       /\ curlOp' = ops1
       /\ heapLive' = Delete(heapLive, c)
       /\ heapFault' = Sticky(heapFault, DeleteFault(heapLive, ops1, c))
    /\ lastCall' = Call(op, c, raised, 0)
    /\ wait' = WaitIdle
    /\ UNCHANGED <<alive, fair>>

complete(c, op, raised) == completeConn(c, op, raised) /\ UNCHANGED xfer

completeGet(c, raised) == complete(c, "completeGet", raised)

completePut(c, raised) == complete(c, "completePut", raised)

completeDel(c, raised) == complete(c, "completeDel", raised)

(* put / get / del: the request lives on the caller's stack for the call;  *)
(* prepare() asserts that no async request is pending.                      *)
syncOpConn(c, op, raised) ==
    /\ Ready /\ alive[c]
    /\ asyncRequest[c] = NULL
    /\ lastCall' = Call(op, c, raised, 0)
    /\ wait' = WaitIdle
    /\ UNCHANGED <<alive, asyncRequest, curlOp, heapLive, heapFault, fair>>

syncOp(c, op, raised) == syncOpConn(c, op, raised) /\ UNCHANGED xfer

(* Variant of cancelAsync's body that deletes the request before cancelOp. *)
cancelBody_deleteFirst(c) ==
    /\ asyncRequest' = [asyncRequest EXCEPT ![c] = NULL]
    /\ curlOp' = cancelOp(curlOp, c)
    /\ IF asyncRequest[c] = NULL
       THEN UNCHANGED <<heapLive, heapFault>>
       ELSE /\ heapLive' = Delete(heapLive, c)
            /\ heapFault' = Sticky(heapFault, DeleteFault(heapLive, curlOp, c))

(* Variant of cancelAsync's body that cancels but keeps m_asyncRequest. *)
cancelBody_keepPending(c) ==
    /\ curlOp' = cancelOp(curlOp, c)
    /\ UNCHANGED <<asyncRequest, heapLive, heapFault>>

(* The body of cancelAsync: release the request, cancel, delete on exit. *)
cancelBody(c) ==
    LET ops1 == cancelOp(curlOp, c) IN
    /\ asyncRequest' = [asyncRequest EXCEPT ![c] = NULL]
    /\ curlOp' = ops1
    /\ IF asyncRequest[c] = NULL
       THEN UNCHANGED <<heapLive, heapFault>>
       ELSE /\ heapLive' = Delete(heapLive, c)
            /\ heapFault' = Sticky(heapFault, DeleteFault(heapLive, ops1, c))

cancelAsyncConn(c) ==
    /\ Ready /\ alive[c]
    /\ cancelBody(c)
    /\ lastCall' = Call("cancelAsync", c, FALSE, 0)
    /\ wait' = WaitIdle
    /\ UNCHANGED <<alive, fair>>

cancelAsync(c) == cancelAsyncConn(c) /\ UNCHANGED xfer

(* ~S3Connection: cancelAsync(), then the members are destroyed. *)
destroy(c) ==
    /\ Ready /\ alive[c]
    /\ cancelBody(c)
    /\ alive' = [alive EXCEPT ![c] = FALSE]
    /\ lastCall' = Call("destroy", c, FALSE, 0)
    /\ wait' = WaitIdle
    /\ UNCHANGED <<fair, xfer>>

(* S3Connection::S3Connection: m_asyncRequest( NULL ). *)
construct(c) ==
    /\ Ready /\ ~alive[c]
    /\ alive' = [alive EXCEPT ![c] = TRUE]
    /\ asyncRequest' = [asyncRequest EXCEPT ![c] = NULL]
    /\ curlOp' = [curlOp EXCEPT ![c] = "idle"]
    /\ lastCall' = Call("construct", c, FALSE, 0)
    /\ wait' = WaitIdle
    /\ UNCHANGED <<heapLive, heapFault, fair, xfer>>

get(c, raised) == syncOp(c, "get", raised)

put(c, raised) == syncOp(c, "put", raised)

del(c, raised) == syncOp(c, "del", raised)

----------------------------------------------------------------------------
(* S3Connection::waitAny( cons, count, startFrom, timeout ).  cons[ i ] is *)
(* connection i of the driver's array.                                     *)

(* Variant of the probe order that ignores startFrom. *)
rotIndex_ignoreStart(i, startFrom, count) == i % count

(* size_t index = ( i + startFrom ) % count; *)
rotIndex(i, startFrom, count) == ((i + startFrom) % SizeMod) % count

(* Variant of the result mapping that ignores startFrom. *)
waitAnyIndex_noStart(res, startFrom, count) == res % count

(* return ( res + startFrom ) % count; *)
waitAnyIndex(res, startFrom, count) == ((res + startFrom) % SizeMod) % count

(* The for loop: the first i whose connection has completed, count if none. *)
RECURSIVE scan(_, _, _)
scan(i, count, startFrom) ==
    IF i >= count THEN count
    ELSE IF isAsyncCompleted(rotIndex(i, startFrom, count)) THEN i
    ELSE scan(i + 1, count, startFrom)

(* events[ i ] = con.m_curl.completedEvent(), for the first n iterations. *)
eventsOf(n, count, startFrom) == [i \in 1 .. n |-> rotIndex(i - 1, startFrom, count)]

(* Variant of the limit test that admits one connection more. *)
tooMany_offByOne(count) == count > c_maxEventCount + 1

(* if( count > EventSync::c_maxEventCount ) *)
tooMany(count) == count > c_maxEventCount

waitAnyCall(count, startFrom) ==
    /\ Ready
    /\ IF tooMany(count)
       THEN \* throw S3Exception( errTooManyConnetions )
            /\ wait' = [WaitIdle EXCEPT !.count = count, !.startFrom = startFrom]
            /\ lastCall' = [Call("waitAny", 0, TRUE, 0) EXCEPT !.wasPending = FALSE]
       ELSE /\ \A i \in 0 .. (count - 1) : alive[i] /\ isAsyncPending(i)
            /\ LET hit == scan(0, count, startFrom)
                   w == [pc |-> "idle", count |-> count, startFrom |-> startFrom,
                         events |-> eventsOf(IF hit < count THEN hit ELSE count,
                                             count, startFrom),
                         scanned |-> IF hit < count THEN hit + 1 ELSE count,
                         res |-> -1,
                         doneAtCall |-> {i \in 0 .. (count - 1) : isAsyncCompleted(i)}]
               IN
               IF hit < count
               THEN \* return index
                    /\ wait' = w
                    /\ lastCall' = [Call("waitAny", 0, FALSE, rotIndex(hit, startFrom, count))
                                      EXCEPT !.wasPending = FALSE]
               ELSE \* EventSync::waitAny( events, count, timeout ) blocks
                    /\ wait' = [w EXCEPT !.pc = "waiting"]
                    /\ UNCHANGED lastCall
    /\ UNCHANGED <<connVars, xfer>>

waitAny(count, startFrom) ==
    /\ waitAnyCall(count, startFrom)
    /\ UNCHANGED fair

(* EventSync::waitAny returns: -1 on timeout, else the position of a set  *)
(* event; waitAny maps the position back to the connection index.         *)
waitAnyEnd(res) ==
    /\ wait.pc = "waiting"
    /\ \/ res = -1
       \/ /\ res \in 0 .. (wait.count - 1)
          /\ isOpCompleted(wait.events[res + 1])
    /\ wait' = [wait EXCEPT !.pc = "idle", !.res = res]
    /\ lastCall' = [Call("waitAny", 0, FALSE,
                             IF res = -1 THEN -1
                             ELSE waitAnyIndex(res, wait.startFrom, wait.count))
                       EXCEPT !.wasPending = FALSE]
    /\ UNCHANGED <<connVars, fair, xfer>>

(* The drivers' loop (s3get, s3put): waitAny( cons, n, i % n ) with i      *)
(* advancing by one per call.  missed[c] counts the consecutive calls that *)
(* found c completed and returned another connection.                      *)
driverWaitAny ==
    /\ waitAnyCall(fair.count, fair.nextStart)
    /\ LET ret == IF wait'.pc = "idle" THEN lastCall'.ret ELSE -1 IN
       fair' = [fair EXCEPT
                  !.nextStart = (fair.nextStart + 1) % fair.count,
                  !.missed = [c \in Cons |->
                                 IF c < fair.count /\ isAsyncCompleted(c) /\ ret # c
                                 THEN fair.missed[c] + 1 ELSE 0]]

NoFair == [count |-> 1, nextStart |-> 0, missed |-> [c \in Cons |-> 0]]

(* Part II is not running: no request has been prepared. *)
XferNone == [pc |-> "none"]

----------------------------------------------------------------------------
(* Part II.  One S3Request and its transfer.  xfer is a record:            *)
(*   pc        "running" (engine may call back), "aborted" (a callback     *)
(*             returned short), "finished" (engine returned curlCode),     *)
(*             "completed" (S3Request::complete returned or raised)        *)
(*   verb      "GET" (body to the sink), "PUT" (upload source),            *)
(*             "LIST" (onExpectXmlPayload)                                 *)
(*   error, badAlloc                Request::m_error, m_is_bad_alloc       *)
(*   status, ctype, clen            m_responseDetails                      *)
(*   loaded, truncated              m_responseDetails                      *)
(*   writeFn   CURLOPT_WRITEFUNCTION: "noop", "xml", "binary"              *)
(*   ctx       m_ctx # NULL                                                *)
(* and, as history: calls, bodyStarted (a body chunk was passed), sunk and  *)
(* accepted (the bytes passed to the sink of a GET and the bytes it        *)
(* reported as accepted), shortAt (the call in which the sink first took   *)
(* less than it was passed, 0 if none), uploadDone, origins (the failures raised inside *)
(* callbacks), lastCb, shortHX (a header or XML callback returned less     *)
(* than offered), escaped (an exception left a callback), curlCode, outcome *)

MaxCalls == 3            \* callbacks of one transfer
MaxChunk == 2            \* bytes offered to a body or upload callback

errUnexpected == "Unexpected error."
errParser == "Cannot parse the response."
(* What libcurl writes to CURLOPT_ERRORBUFFER when the overall timeout     *)
(* expires during a transfer, and curl_easy_strerror of a result code.     *)
timedOutDetails == "Operation timed out after 30 milliseconds with 4096 bytes received"

curl_easy_strerror(code) ==
    IF code = "CURLE_OPERATION_TIMEDOUT" THEN "Timeout was reached"
    ELSE "<curl_easy_strerror>"

(* S3Exception( errCurl, text ): errCurl is "%s.". *)
errCurlMsg(text) ==
    CASE text = timedOutDetails ->
             "Operation timed out after 30 milliseconds with 4096 bytes received."
      [] text = "Timeout was reached" -> "Timeout was reached."
      [] OTHER -> "<curl error text>."

(* What can be thrown inside a callback. *)
Thrown == {"bad_alloc", "user", "pct", "parser", "other"}

(* e.what() of a thrown std::exception. *)
what(t) ==
    CASE t = "user" -> "sink failed"
      [] t = "pct" -> "disk 100% full"
      [] t = "parser" -> errParser

(* S3Exception( fmt ) with no arguments: vsnprintf( buf, 511, fmt ).  A    *)
(* conversion specification in fmt is replaced by the conversion of an     *)
(* argument that was never passed.                                         *)
S3Exception(fmt) ==
    IF fmt = "disk 100% full" THEN "disk 100<conversion>ull" ELSE fmt

(* The failure as it was raised, in the terms of the error taxonomy. *)
Origin(t) ==
    CASE t = "bad_alloc" -> "OutOfMemory"
      [] t = "other" -> errUnexpected
      [] OTHER -> what(t)

hasError(r) == r.badAlloc \/ r.error # NULL

(* Variant of saveError without the outer catch( const std::bad_alloc & ). *)
saveError_noOuterCatch(r, t, allocFails) ==
    IF t = "bad_alloc" THEN [r EXCEPT !.badAlloc = TRUE]
    ELSE IF allocFails THEN [r EXCEPT !.escaped = TRUE]
    ELSE IF t = "other" THEN [r EXCEPT !.error = S3Exception(errUnexpected)]
    ELSE [r EXCEPT !.error = S3Exception(what(t))]

(* Request::saveError, called in catch( ... ) with t in flight.            *)
(* allocFails: the new S3Exception throws bad_alloc (outer catch).         *)
saveError(r, t, allocFails) ==
    IF t = "bad_alloc" THEN [r EXCEPT !.badAlloc = TRUE]
    ELSE IF allocFails THEN [r EXCEPT !.badAlloc = TRUE]
    ELSE IF t = "other" THEN [r EXCEPT !.error = S3Exception(errUnexpected)]
    ELSE [r EXCEPT !.error = S3Exception(what(t))]

(* History of a callback's catch block: what was raised inside it. *)
caught(r, t, allocFails) ==
    [saveError(r, t, allocFails) EXCEPT
        !.origins = @ \cup {Origin(t)}
                      \cup (IF allocFails /\ t # "bad_alloc" THEN {"OutOfMemory"} ELSE {})]

(* History of a callback's return. *)
returned(r, name, offered, ret) ==
    [r EXCEPT !.lastCb = [name |-> name, offered |-> offered, ret |-> ret],
              !.calls = @ + 1,
              !.shortHX = @ \/ (name \in {"header", "xml"} /\ ret < offered),
              !.pc = IF name # "upload" /\ ret # offered THEN "aborted" ELSE @]

expectXml(verb) == verb \in {"LIST", "POST"}

setPayloadHandler(r) ==
    IF r.status = "Success"
    THEN [r EXCEPT !.writeFn = IF expectXml(r.verb) THEN "xml" ELSE "binary"]
    ELSE IF r.clen # "zero" /\ r.ctype = "xml"
    THEN [r EXCEPT !.writeFn = "xml"]
    ELSE r

StatusOf == [s200 |-> "Success", s404 |-> "HttpResourceNotFound",
             s403 |-> "HttpOrAwsFailure", s405 |-> "HttpFailure"]

(* The status text httpStatus.assign stores for each status line. *)
httpStatusOf ==
    [s200 |-> "200 OK", s404 |-> "404 Not Found", s403 |-> "403 Forbidden",
     s405 |-> "405 Method Not Allowed"]

(* The Code texts of Error documents. *)
ErrorCodes == {"NoSuchKey", "NoSuchEntity", "AccessDenied"}

HeaderLines == {"blank", "s200", "s404", "s403", "s405",
                "ctype_xml", "ctype_other", "clen_zero", "clen_pos", "etag"}

(* S3Request::handleHeader_ for one header line of size 1.  t is what a    *)
(* string assignment throws: "bad_alloc" or "none".                        *)
handleHeader_(r, line, t) ==
    IF line = "blank" THEN returned(r, "header", 1, 1)
    ELSE IF t # "none" THEN returned(caught(r, t, FALSE), "header", 1, 0)
    ELSE LET r1 ==
               CASE line \in DOMAIN StatusOf ->
                        setPayloadHandler([r EXCEPT !.status = StatusOf[line],
                                                    !.httpStatus = httpStatusOf[line]])
                 [] line = "etag" -> [r EXCEPT !.etag = "e1"]
                 [] line = "clen_zero" -> setPayloadHandler([r EXCEPT !.clen = "zero"])
                 [] line = "clen_pos" -> setPayloadHandler([r EXCEPT !.clen = "pos"])
                 [] line = "ctype_xml" -> setPayloadHandler([r EXCEPT !.ctype = "xml"])
                 [] line = "ctype_other" -> setPayloadHandler([r EXCEPT !.ctype = "other"])
                 [] OTHER -> r
         IN returned(r1, "header", 1, 1)

(* S3Request::handleXmlPayload_ for a chunk of n bytes.  ctxFails: the     *)
(* parser context cannot be created; t: what a SAX hook throws while the   *)
(* chunk is parsed; code: the text of the Code child of an Error element   *)
(* that the chunk carries, "none" if it carries none.                      *)
handleXmlPayload_(r, n, ctxFails, t, allocFails, code) ==
    LET create == \/ ~r.ctx /\ r.status \in {"Success", "HttpResourceNotFound"}
                  \/ r.status = "HttpOrAwsFailure"
    IN
    IF create /\ ctxFails
    THEN returned(caught([r EXCEPT !.ctx = FALSE], "bad_alloc", allocFails), "xml", n, 0)
    ELSE LET r1 == IF create THEN [r EXCEPT !.ctx = TRUE] ELSE r IN
         IF r1.ctx /\ t # "none"
         THEN returned(caught(r1, t, allocFails), "xml", n, 0)
         ELSE LET r2 == IF r1.ctx /\ code # "none"
                        THEN [r1 EXCEPT
                                 !.errorCode = code,
                                 !.errorMessage = "The resource does not exist",
                                 !.requestId = "4442587FB7D0A2F9",
                                 !.status =
                                     IF @ \in {"HttpResourceNotFound", "HttpOrAwsFailure"}
                                     THEN "FailureWithDetails" ELSE @]
                        ELSE r1
              IN returned(r2, "xml", n, n)

(* Variant of handleBinaryLoad_ that leaves isTruncated. *)
handleBinaryLoad_noTruncate(r, n, k, t, allocFails) ==
    LET loaded == IF t # "none" THEN 0 ELSE IF r.verb = "GET" THEN k ELSE n
        r1 == IF t # "none" THEN caught(r, t, allocFails)
              ELSE [r EXCEPT !.loaded = @ + loaded]
    IN returned(r1, "binary", n, loaded)

(* Variant of handleBinaryLoad_ that counts the chunk, not the return. *)
handleBinaryLoad_countChunk(r, n, k, t, allocFails) ==
    LET loaded == IF t # "none" THEN 0 ELSE IF r.verb = "GET" THEN k ELSE n
        r1 == IF t # "none" THEN caught(r, t, allocFails)
              ELSE [r EXCEPT !.loaded = @ + n]
        r2 == IF loaded < n THEN [r1 EXCEPT !.truncated = TRUE] ELSE r1
    IN returned(r2, "binary", n, loaded)

(* S3Request::handleBinaryLoad_ for a chunk of n bytes: the sink accepts k *)
(* bytes or throws t.  Only a GET has a caller's sink; the default         *)
(* onLoadBinary accepts the chunk.                                          *)
handleBinaryLoad_(r, n, k, t, allocFails) ==
    LET loaded == IF t # "none" THEN 0 ELSE IF r.verb = "GET" THEN k ELSE n
        r1 == IF t # "none" THEN caught(r, t, allocFails)
              ELSE [r EXCEPT !.loaded = @ + loaded]
        r2 == IF loaded < n THEN [r1 EXCEPT !.truncated = TRUE] ELSE r1
    IN returned(r2, "binary", n, loaded)

(* S3Request::handleBinaryUpload_ for a buffer of n bytes: the source      *)
(* writes k bytes or throws t.                                              *)
handleBinaryUpload_(r, n, k, t, allocFails) ==
    LET uploaded == IF t # "none" THEN 0 ELSE k
        r1 == IF t # "none" THEN caught(r, t, allocFails) ELSE r
    IN [returned(r1, "upload", n, uploaded) EXCEPT !.uploadDone = (uploaded = 0)]

(* writeNoop *)
writeNoop(r, n) == returned(r, "noop", n, n)

(* Variant of saveIfCurlError that saves CURLE_WRITE_ERROR as well. *)
saveIfCurlError_writeError(r, code, allocFails) ==
    IF code = "CURLE_OUT_OF_MEMORY" THEN [r EXCEPT !.badAlloc = TRUE]
    ELSE IF code # "CURLE_OK"
    THEN IF allocFails THEN [r EXCEPT !.outcome = "OutOfMemory"]
         ELSE IF r.errorBuffer # "" THEN [r EXCEPT !.error = errCurlMsg(r.errorBuffer)]
         ELSE [r EXCEPT !.error = errCurlMsg(curl_easy_strerror(code))]
    ELSE r

(* Variant of saveIfCurlError that never reads the error buffer. *)
saveIfCurlError_noDetails(r, code, allocFails) ==
    IF code = "CURLE_OUT_OF_MEMORY" THEN [r EXCEPT !.badAlloc = TRUE]
    ELSE IF code \notin {"CURLE_OK", "CURLE_WRITE_ERROR"}
    THEN IF allocFails THEN [r EXCEPT !.outcome = "OutOfMemory"]
         ELSE [r EXCEPT !.error = errCurlMsg(curl_easy_strerror(code))]
    ELSE r

(* Request::saveIfCurlError.  The result of new S3Exception throwing       *)
(* bad_alloc is the record with raised set: the exception leaves complete. *)
saveIfCurlError(r, code, allocFails) ==
    IF code = "CURLE_OUT_OF_MEMORY" THEN [r EXCEPT !.badAlloc = TRUE]
    ELSE IF code \notin {"CURLE_OK", "CURLE_WRITE_ERROR"}
    THEN IF allocFails THEN [r EXCEPT !.outcome = "OutOfMemory"]
         ELSE IF r.errorBuffer # "" THEN [r EXCEPT !.error = errCurlMsg(r.errorBuffer)]
         ELSE [r EXCEPT !.error = errCurlMsg(curl_easy_strerror(code))]
    ELSE r

(* Request::raiseIfError: the failure thrown, "returned" if none. *)
raiseIfError(r) ==
    IF r.badAlloc THEN "OutOfMemory"
    ELSE IF r.error # NULL THEN r.error
    ELSE "returned"

(* S3Request::complete( curlCode ).  t: what a SAX hook throws while the   *)
(* parser is flushed with the final empty chunk.                           *)
requestComplete(r, allocFails, t) ==
    LET r1 == saveIfCurlError(r, r.curlCode, allocFails) IN
    IF r1.outcome # "none" THEN [r1 EXCEPT !.pc = "completed"]
    ELSE IF r1.ctx /\ ~hasError(r1) /\ t # "none"
    THEN [r1 EXCEPT !.pc = "completed", !.outcome = Origin(t)]
    ELSE [r1 EXCEPT !.pc = "completed", !.ctx = FALSE, !.outcome = raiseIfError(r1)]

NoFailure == [fmt |-> "none", args |-> <<>>]
NoResponse == [loadedContentLength |-> 0, isTruncated |-> FALSE, etag |-> ""]

(* The request after its constructor and S3Connection::prepare. *)
Prepared(verb) ==
    [pc |-> "running", verb |-> verb,
     error |-> NULL, badAlloc |-> FALSE,
     status |-> "Unexpected", httpStatus |-> "", etag |-> "",
     errorCode |-> "", errorMessage |-> "", requestId |-> "",
     ctype |-> "", clen |-> "unset",
     loaded |-> 0, truncated |-> FALSE,
     writeFn |-> "noop", ctx |-> FALSE,
     calls |-> 0, bodyStarted |-> FALSE, sunk |-> 0, accepted |-> 0, shortAt |-> 0,
     uploadDone |-> FALSE, origins |-> {},
     lastCb |-> [name |-> "none", offered |-> 0, ret |-> 0],
     shortHX |-> FALSE, escaped |-> FALSE,
     errorBuffer |-> "", curlCode |-> "none", outcome |-> "none",
     url |-> "http://bucket.host/key", key |-> "key",
     final |-> "", failure |-> NoFailure, response |-> NoResponse]

Verbs == {"GET", "PUT", "DEL", "LIST"}

CanCall == xfer.pc = "running" /\ xfer.calls < MaxCalls

(* Actions: the engine calls back, finishes; the driver completes. *)

start(verb) ==
    /\ xfer.pc = "none"
    /\ xfer' = Prepared(verb)
    /\ UNCHANGED <<connVars, lastCall, wait, fair>>

cbHeader(line, t) ==
    /\ CanCall
    /\ ~xfer.bodyStarted
    /\ xfer' = handleHeader_(xfer, line, t)
    /\ UNCHANGED <<connVars, lastCall, wait, fair>>

cbWrite(n, k, t, allocFails, ctxFails, code) ==
    /\ CanCall
    /\ xfer.writeFn = "binary" => t # "parser" /\ ~ctxFails /\ code = "none"
    /\ xfer.writeFn = "noop" => t = "none" /\ ~ctxFails /\ code = "none"
    /\ xfer.writeFn = "xml" /\ n = 0 => t = "none"
    /\ xfer.writeFn # "binary" \/ xfer.verb # "GET" \/ t # "none" => k = n
    /\ allocFails => t # "none" \/ ctxFails
    /\ LET toSink == xfer.writeFn = "binary" /\ xfer.verb = "GET"
           r == [xfer EXCEPT
                    !.bodyStarted = TRUE,
                    !.sunk = IF toSink THEN @ + n ELSE @,
                    !.accepted = IF toSink /\ t = "none" THEN @ + k ELSE @,
                    !.shortAt = IF toSink /\ @ = 0 /\ (IF t = "none" THEN k ELSE 0) < n
                                THEN xfer.calls + 1 ELSE @]
       IN
       xfer' = CASE r.writeFn = "noop" -> writeNoop(r, n)
                 [] r.writeFn = "xml" ->
                        handleXmlPayload_(r, n, ctxFails, t, allocFails, code)
                 [] r.writeFn = "binary" ->
                        handleBinaryLoad_(r, n, k, t, allocFails)
    /\ UNCHANGED <<connVars, lastCall, wait, fair>>

cbRead(n, k, t, allocFails) ==
    /\ CanCall
    /\ xfer.verb = "PUT" /\ ~xfer.uploadDone
    /\ t # "none" => k = n
    /\ allocFails => t # "none"
    /\ xfer' = handleBinaryUpload_(xfer, n, k, t, allocFails)
    /\ UNCHANGED <<connVars, lastCall, wait, fair>>

(* curl_easy_perform / the pump returns the transfer's result code. *)
engineFinish(code) ==
    /\ xfer.pc \in {"running", "aborted"}
    /\ xfer.pc = "aborted" <=> code = "CURLE_WRITE_ERROR"
    /\ xfer' = [xfer EXCEPT !.pc = "finished", !.curlCode = code,
                            !.errorBuffer = IF code = "CURLE_OPERATION_TIMEDOUT"
                                            THEN timedOutDetails ELSE ""]
    /\ UNCHANGED <<connVars, lastCall, wait, fair>>

complete_(allocFails, t) ==
    /\ xfer.pc = "finished"
    /\ xfer' = requestComplete(xfer, allocFails, t)
    /\ UNCHANGED <<connVars, lastCall, wait, fair>>

(* The operation around the request.  A failure in flight is a record:  *)
(* fmt is the format of its message, args the arguments formatted in; a     *)
(* summary has the wrapped failure as inner.  OutOfMemory is std::bad_alloc. *)

errHTTP == "%s."
errHTTPResourceNotFound == "HTTP resource not found: %s."
errAWS == "%s (Code='%s', RequestId='%s')."
errS3Summary == "S3 %s for '%s' failed. %s"

rethrown(outcome) == [fmt |-> outcome, args |-> <<>>]

(* Variant of handleErrors that lets HTTP_OR_AWS_FAILURE return. *)
handleErrors_lenient(d) ==
    CASE d.status \in {"Success", "HttpOrAwsFailure"} -> NoFailure
      [] d.status = "Unexpected" -> [fmt |-> errUnexpected, args |-> <<>>]
      [] d.status = "HttpResourceNotFound" ->
             [fmt |-> errHTTPResourceNotFound, args |-> <<d.url>>]
      [] d.status = "HttpFailure" -> [fmt |-> errHTTP, args |-> <<d.httpStatus>>]
      [] d.status = "FailureWithDetails" ->
             [fmt |-> errAWS, args |-> <<d.errorMessage, d.errorCode, d.requestId>>]

(* handleErrors( details ): the failure thrown, NoFailure if it returns. *)
handleErrors(d) ==
    CASE d.status = "Success" -> NoFailure
      [] d.status = "Unexpected" -> [fmt |-> errUnexpected, args |-> <<>>]
      [] d.status = "HttpResourceNotFound" ->
             [fmt |-> errHTTPResourceNotFound, args |-> <<d.url>>]
      [] d.status \in {"HttpFailure", "HttpOrAwsFailure"} ->
             [fmt |-> errHTTP, args |-> <<d.httpStatus>>]
      [] d.status = "FailureWithDetails" ->
             [fmt |-> errAWS, args |-> <<d.errorMessage, d.errorCode, d.requestId>>]

(* Variant of the override of completeGet that leaves loadedContentLength. *)
getOverride_statusOnly(d) ==
    IF d.status = "FailureWithDetails" /\ d.errorCode \in {"NoSuchKey", "NoSuchEntity"}
    THEN [d EXCEPT !.status = "Success"]
    ELSE d

(* Variant of the override of completeDel that takes any missing-key code. *)
delOverride_anyMissing(d) ==
    IF d.status = "FailureWithDetails" /\ d.errorCode \in {"NoSuchKey", "NoSuchEntity"}
    THEN [d EXCEPT !.status = "Success"]
    ELSE d

(* The status override at the head of the static completeGet. *)
getOverride(d) ==
    IF d.status = "FailureWithDetails" /\ d.errorCode \in {"NoSuchKey", "NoSuchEntity"}
    THEN [d EXCEPT !.status = "Success", !.loaded = -1]
    ELSE d

(* The status override at the head of the static completeDel. *)
delOverride(d) ==
    IF d.status = "FailureWithDetails" /\ d.errorCode = "NoSuchEntity"
    THEN [d EXCEPT !.status = "Success"]
    ELSE d

(* The static completeGet / completePut / completeDel, and the tail of     *)
(* listObjects, on the details S3Request::complete returned: the details   *)
(* as handleErrors sees them.                                               *)
completeDetails(d) ==
    CASE d.verb = "GET" -> getOverride(d)
      [] d.verb = "DEL" -> delOverride(d)
      [] OTHER -> d

(* Variant of throwSummary without the catch( const std::bad_alloc & ). *)
throwSummary_wrapAll(op, key, f) ==
    [fmt |-> errS3Summary, args |-> <<op, key>>, inner |-> f]

(* throwSummary( op, key ) in catch( ... ) with failure f in flight. *)
throwSummary(op, key, f) ==
    IF f.fmt = "OutOfMemory" THEN f
    ELSE [fmt |-> errS3Summary, args |-> <<op, key>>, inner |-> f]

(* The name the operation passes to throwSummary. *)
opName(verb, async) ==
    CASE verb = "GET" -> IF async THEN "completeGet" ELSE "get"
      [] verb = "PUT" -> IF async THEN "completePut" ELSE "put"
      [] verb = "DEL" -> IF async THEN "completeDel" ELSE "del"
      [] verb = "LIST" -> "listObjects"
      [] verb = "POST" -> "initiateMultipartUpload"

(* The operation from the return of S3Request::complete to its own return: *)
(* try { ... complete; completeXxx( details, response ) } catch( ... )     *)
(* { throwSummary( op, key ) }.  The response is written only if nothing   *)
(* was thrown.                                                              *)
operationEnd(r, async) ==
    LET d == completeDetails(r)
        f == IF r.outcome # "returned" THEN rethrown(r.outcome) ELSE handleErrors(d)
    IN IF f = NoFailure
       THEN [r EXCEPT !.pc = "done", !.final = d.status,
                      !.response = [loadedContentLength |-> d.loaded,
                                    isTruncated |-> d.truncated,
                                    etag |-> d.etag]]
       ELSE [r EXCEPT !.pc = "done", !.final = d.status,
                      !.failure = throwSummary(opName(r.verb, async), r.key, f)]

opEnd(async) ==
    /\ xfer.pc = "completed"
    /\ async => xfer.verb # "LIST"
    /\ xfer' = operationEnd(xfer, async)
    /\ UNCHANGED <<connVars, lastCall, wait, fair>>

CurlCodes == {"CURLE_OK", "CURLE_WRITE_ERROR", "CURLE_OPERATION_TIMEDOUT",
              "CURLE_OUT_OF_MEMORY"}

NoThrow == {"none"} \cup Thrown


----------------------------------------------------------------------------
(* Specification of Part I: every permitted call, in any order. *)

InitConn ==
    /\ alive = [c \in Cons |-> TRUE]
    /\ asyncRequest = [c \in Cons |-> NULL]
    /\ curlOp = [c \in Cons |-> "idle"]
    /\ heapLive = [c \in Cons |-> 0]
    /\ heapFault = "none"
    /\ lastCall = NoCall
    /\ wait = WaitIdle

Init ==
    /\ InitConn
    /\ fair = NoFair
    /\ xfer = XferNone

Next ==
    \/ \E c \in LifeCons, f \in PendFail : pendGet(c, f)
    \/ \E c \in LifeCons, f \in PendFail : pendPut(c, f)
    \/ \E c \in LifeCons, f \in PendFail : pendDel(c, f)
    \/ \E c \in LifeCons, r \in BOOLEAN : completeGet(c, r)
    \/ \E c \in LifeCons, r \in BOOLEAN : completePut(c, r)
    \/ \E c \in LifeCons, r \in BOOLEAN : completeDel(c, r)
    \/ \E c \in LifeCons, r \in BOOLEAN : get(c, r)
    \/ \E c \in LifeCons, r \in BOOLEAN : put(c, r)
    \/ \E c \in LifeCons, r \in BOOLEAN : del(c, r)
    \/ \E c \in LifeCons : cancelAsync(c)
    \/ \E c \in LifeCons : destroy(c)
    \/ \E c \in LifeCons : construct(c)
    \/ \E c \in LifeCons : transportFinish(c)

Spec == Init /\ [][Next]_vars

----------------------------------------------------------------------------
(* Specification of waitAny: pipelines of gets and puts over the array,   *)
(* waitAny with every count and startFrom.                                 *)

NextWait ==
    \/ \E c \in Cons, f \in PendFail : pendGet(c, f)
    \/ \E c \in Cons, r \in BOOLEAN : completeGet(c, r)
    \/ \E c \in Cons : cancelAsync(c)
    \/ \E c \in Cons : transportFinish(c)
    \/ \E n \in 0 .. NCon, s \in 0 .. (SizeMod - 1) : waitAny(n, s)
    \/ \E r \in -1 .. (c_maxEventCount - 1) : waitAnyEnd(r)

SpecWait == Init /\ [][NextWait]_vars

(* Specification of the drivers' loop: startFrom advances by one per call. *)

InitFair ==
    /\ InitConn
    /\ \E n \in 1 .. c_maxEventCount, s \in 0 .. (c_maxEventCount - 1) :
          /\ s < n
          /\ fair = [NoFair EXCEPT !.count = n, !.nextStart = s]
    /\ xfer = XferNone

NextFair ==
    \/ \E c \in Cons : c < fair.count /\ pendGet(c, "none")
    \/ \E c \in Cons, r \in BOOLEAN : c < fair.count /\ completeGet(c, r)
    \/ \E c \in Cons : c < fair.count /\ transportFinish(c)
    \/ driverWaitAny
    \/ \E r \in -1 .. (c_maxEventCount - 1) : waitAnyEnd(r)

SpecFair == InitFair /\ [][NextFair]_vars

(* Specification of Part II: one request, its callbacks and complete. *)
InitCb ==
    /\ InitConn
    /\ fair = NoFair
    /\ xfer = XferNone

NextCb ==
    \/ \E v \in Verbs \ {"DEL"} : start(v)
    \/ \E line \in HeaderLines \ {"etag"}, t \in {"none", "bad_alloc"} :
           cbHeader(line, t)
    \/ \E n \in 0 .. MaxChunk, k \in 0 .. MaxChunk, t \in NoThrow,
          a \in BOOLEAN, cf \in BOOLEAN, d \in {"none", "AccessDenied"} :
           /\ k <= n
           /\ cbWrite(n, k, t, a, cf, d)
    \/ \E n \in 1 .. MaxChunk, k \in 0 .. MaxChunk, t \in NoThrow \ {"parser"},
          a \in BOOLEAN :
           /\ k <= n
           /\ cbRead(n, k, t, a)
    \/ \E code \in CurlCodes : engineFinish(code)
    \/ \E a \in BOOLEAN, t \in NoThrow : complete_(a, t)

SpecCb == InitCb /\ [][NextCb]_vars

(* Specification of an operation: the request of any verb, its callbacks,  *)
(* complete and the end of the operation.  A callback's own code throws    *)
(* std::bad_alloc, a std::exception ("user") or something else ("other").  *)
OpThrow == {"none", "bad_alloc", "user", "other"}

NextOp ==
    \/ \E v \in Verbs : start(v)
    \/ \E line \in HeaderLines, t \in {"none", "bad_alloc"} : cbHeader(line, t)
    \/ \E n \in 0 .. MaxChunk, k \in 0 .. MaxChunk, t \in OpThrow,
          d \in {"none"} \cup ErrorCodes :
           /\ k <= n
           /\ cbWrite(n, k, t, FALSE, FALSE, d)
    \/ \E n \in 1 .. MaxChunk, k \in 0 .. MaxChunk, t \in OpThrow :
           /\ k <= n
           /\ cbRead(n, k, t, FALSE)
    \/ \E code \in CurlCodes : engineFinish(code)
    \/ complete_(FALSE, "none")
    \/ \E async \in BOOLEAN : opEnd(async)

SpecOp == InitCb /\ [][NextOp]_vars

----------------------------------------------------------------------------
(* Claims about the connection (Spec). *)

PendOps == {"pendGet", "pendPut", "pendDel"}
CompleteOps == {"completeGet", "completePut", "completeDel"}
SyncOps == {"get", "put", "del"}

(* C1: at most one asynchronous operation is outstanding on a connection:  *)
(* it never owns more than one request object, and a transfer is pended or *)
(* finished on its handle only while it owns one.                          *)
C1_OneAsyncOutstanding ==
    \A c \in Cons :
        /\ heapLive[c] <= 1
        /\ isAsyncPending(c) => heapLive[c] = 1
        /\ curlOp[c] # "idle" => isAsyncPending(c)

C1_Witness ==
    /\ lastCall.op \in PendOps /\ ~lastCall.raised
    /\ \A c \in LifeCons : isAsyncPending(c) /\ heapLive[c] = 1

(* C2: isAsyncPending is true after a pend* that returned, false after a   *)
(* pend* that raised, false after complete* (returned or raised) and after *)
(* cancelAsync; and it changes only in a step of one of these calls on     *)
(* that connection (or of the destructor, which cancels).                  *)
C2_PendingAfterCall ==
    /\ (lastCall.op \in PendOps /\ ~lastCall.raised) => isAsyncPending(lastCall.con)
    /\ (lastCall.op \in PendOps /\ lastCall.raised) => ~isAsyncPending(lastCall.con)
    /\ lastCall.op \in CompleteOps => ~isAsyncPending(lastCall.con)
    /\ lastCall.op = "cancelAsync" => ~isAsyncPending(lastCall.con)

C2_PendingChange ==
    \A c \in Cons :
        isAsyncPending(c)' # isAsyncPending(c) =>
            /\ lastCall'.con = c
            /\ lastCall'.op \in PendOps \cup CompleteOps \cup {"cancelAsync", "destroy"}
            /\ lastCall'.op \in PendOps <=> isAsyncPending(c)'

C2_IsAsyncPendingExact == []C2_PendingAfterCall /\ [][C2_PendingChange]_vars

C2_Witness ==
    /\ lastCall.op = "completeGet" /\ lastCall.raised
    /\ ~isAsyncPending(lastCall.con)

(* The state of a connection that was just constructed. *)
IsFresh(c) ==
    /\ alive[c] /\ asyncRequest[c] = NULL /\ curlOp[c] = "idle" /\ heapLive[c] = 0

(* C3: cancelAsync never raises; called with nothing pending it changes no *)
(* state of the connection; in every case it leaves the connection in the  *)
(* state of a fresh one, so that pend* and the synchronous calls are       *)
(* permitted next.                                                          *)
C3_AfterCancel ==
    lastCall.op = "cancelAsync" =>
        /\ ~lastCall.raised
        /\ IsFresh(lastCall.con)
        /\ ENABLED pendGet(lastCall.con, "none")
        /\ ENABLED get(lastCall.con, FALSE)

C3_CancelIdle ==
    (lastCall'.op = "cancelAsync" /\ ~isAsyncPending(lastCall'.con)) =>
        LET c == lastCall'.con IN
        /\ asyncRequest'[c] = asyncRequest[c]
        /\ curlOp'[c] = curlOp[c]
        /\ heapLive'[c] = heapLive[c]
        /\ alive'[c] = alive[c]
        /\ heapFault' = heapFault

C3_CancelAsyncReusable == []C3_AfterCancel /\ [][C3_CancelIdle]_vars

C3_Witness ==
    /\ lastCall.op = "cancelAsync" /\ lastCall.wasPending
    /\ IsFresh(lastCall.con)

(* C4: every request object is deleted exactly once (none is deleted      *)
(* twice, none is left without an owner), none is deleted while the        *)
(* transfer that borrows it is running, and the destructor cancels a       *)
(* pending operation without raising.                                      *)
C4_RequestReleasedOnce ==
    /\ heapFault = "none"
    /\ \A c \in Cons :
          /\ heapLive[c] = (IF isAsyncPending(c) THEN 1 ELSE 0)
          /\ ~alive[c] => (heapLive[c] = 0 /\ curlOp[c] = "idle")
    /\ lastCall.op = "destroy" => ~lastCall.raised

C4_Witness ==
    /\ lastCall.op = "destroy" /\ lastCall.wasPending
    /\ ~alive[lastCall.con] /\ heapLive[lastCall.con] = 0
    /\ \E d \in LifeCons : isAsyncPending(d) /\ curlOp[d] = "running"

----------------------------------------------------------------------------
(* Claims about waitAny (SpecWait, SpecFair). *)

WaitAnyReturned == wait.pc = "idle" /\ lastCall.op = "waitAny"

(* C5: waitAny returns -1 or an index below count of a connection whose    *)
(* pending operation has completed; after the event wait, the index is the *)
(* connection whose event was stored at position res.                      *)
C5_WaitAnyReturnsCompleted ==
    (WaitAnyReturned /\ ~lastCall.raised) =>
        \/ lastCall.ret = -1
        \/ /\ lastCall.ret \in 0 .. (wait.count - 1)
           /\ isAsyncCompleted(lastCall.ret)
           /\ wait.res # -1 => wait.events[wait.res + 1] = lastCall.ret

C5_Witness ==
    /\ WaitAnyReturned /\ wait.res # -1
    /\ wait.count = c_maxEventCount
    /\ wait.res + wait.startFrom >= wait.count
    /\ lastCall.ret = wait.events[wait.res + 1]

(* The first completed connection in the order startFrom, startFrom + 1,   *)
(* ... (mod count). *)
FirstRotated(done, startFrom, count) ==
    LET j == CHOOSE j \in 0 .. (count - 1) :
                 /\ ((startFrom + j) % count) \in done
                 /\ \A k \in 0 .. (j - 1) : ((startFrom + k) % count) \notin done
    IN (startFrom + j) % count

(* C6: when some connection has completed at the time of the call, waitAny *)
(* returns, without waiting, the first completed one in the rotated order. *)
C6_ReturnsFirstRotated ==
    wait.doneAtCall # {} =>
        /\ WaitAnyReturned /\ wait.res = -1
        /\ lastCall.ret = FirstRotated(wait.doneAtCall, wait.startFrom, wait.count)

(* C7: with startFrom advanced by one per call, a completed connection is  *)
(* passed over in fewer than count consecutive calls.                      *)
C7_FairWithinCount ==
    \A c \in Cons : fair.missed[c] <= fair.count - 1

C7_Witness ==
    \E c \in Cons :
        /\ fair.count = c_maxEventCount
        /\ fair.missed[c] = fair.count - 1
        /\ isAsyncCompleted(c)

(* C8: with count above the limit waitAny raises before it reads or waits  *)
(* on any connection, and no connection's pending state changes.           *)
C8_Raised ==
    wait.count > c_maxEventCount =>
        /\ WaitAnyReturned /\ lastCall.raised
        /\ wait.scanned = 0 /\ wait.events = <<>> /\ wait.res = -1

C8_Frame ==
    wait'.count > c_maxEventCount =>
        /\ asyncRequest' = asyncRequest
        /\ heapLive' = heapLive
        /\ alive' = alive

C8_TooManyConnections == []C8_Raised /\ [][C8_Frame]_vars

C8_Witness ==
    /\ wait.count > c_maxEventCount /\ lastCall.raised
    /\ \E c \in Cons : isAsyncPending(c)
    /\ \E c \in Cons : ~isAsyncPending(c)

----------------------------------------------------------------------------
(* Claims about the callbacks of a request (Part II, SpecCb). *)

(* C9: no exception leaves a callback; a failure raised inside one (by     *)
(* user code, a parser hook or an allocation) is stashed on the request;   *)
(* a header or XML-body callback returns fewer bytes than offered only     *)
(* with a failure stashed, and complete then raises instead of returning.  *)
C9_NoFailCallbacks ==
    xfer.pc # "none" =>
        /\ ~xfer.escaped
        /\ xfer.origins # {} => hasError(xfer)
        /\ xfer.shortHX => hasError(xfer)
        /\ xfer.pc = "completed" /\ xfer.shortHX => xfer.outcome # "returned"

(* An XML-body callback whose parser hook failed returned 0 of the bytes   *)
(* offered, and complete raised the parser's failure.                      *)
C9_Witness ==
    /\ xfer.pc = "completed"
    /\ xfer.shortHX
    /\ xfer.lastCb.name = "xml" /\ xfer.lastCb.ret < xfer.lastCb.offered
    /\ xfer.curlCode = "CURLE_WRITE_ERROR"
    /\ xfer.outcome = errParser

(* C10: whatever result code the engine reports, complete raises a failure *)
(* that was raised inside a callback of the transfer, with its kind and    *)
(* its message, whichever callback (header, download, upload) stashed it.  *)
C10_StashedIsReraised ==
    xfer.pc = "completed" /\ xfer.origins # {} => xfer.outcome \in xfer.origins

----------------------------------------------------------------------------
(* Part III.  The text of header lines.  A string is a sequence of         *)
(* one-character strings.  Under SpecHdr xfer is a record with pc = "hdr": *)
(*   status, httpStatus    m_responseDetails                               *)
(*   seen, text, last      history: a status line was handled, the status  *)
(*                         text of the last one, the last line's head and  *)
(*                         status text                                     *)

(* The prefixes S3Request::handleHeader_ compares the status text with. *)
statusPrefixes ==
    [Success |-> {<<"2", "0", "0", " ", "O", "K">>,
                 <<"2", "0", "6", " ", "P", "a", "r", "t", "i", "a", "l", " ", "C", "o", "n", "t", "e", "n", "t">>,
                 <<"2", "0", "4", " ", "N", "o", " ", "C", "o", "n", "t", "e", "n", "t">>},
     HttpResourceNotFound |-> {<<"4", "0", "4", " ", "N", "o", "t">>},
     HttpOrAwsFailure |-> {<<"3", "0", "1", " ", "M", "o", "v", "e", "d">>,
                          <<"4", "0", "0", " ", "B", "a", "d">>,
                          <<"4", "0", "3", " ", "F", "o", "r", "b", "i", "d", "d", "e", "n">>,
                          <<"4", "0", "9", " ", "C", "o", "n", "f", "l", "i", "c", "t">>,
                          <<"5", "0", "0", " ", "I", "n", "t", "e", "r", "n", "a", "l">>,
                          <<"5", "0", "3", " ", "S", "e", "r", "v", "i", "c", "e">>,
                          <<"5", "0", "3", " ", "S", "l", "o", "w">>}]

(* Variant of startsWith that demands the whole text to equal the prefix. *)
startsWith_wholeText(p, prefix) == p = prefix

(* startsWith( p, size, prefix, prefixLen ) *)
startsWith(p, prefix) ==
    Len(p) >= Len(prefix) /\ SubSeq(p, 1, Len(prefix)) = prefix

(* The two trimming loops of handleHeader_: spaces and line breaks are     *)
(* dropped from the start and from the end.                                 *)
trim(p) ==
    LET keep == {i \in 1 .. Len(p) : p[i] \notin {" ", "\n", "\r", "\t"}} IN
    IF keep = {} THEN << >>
    ELSE SubSeq(p, CHOOSE i \in keep : \A j \in keep : i <= j,
                   CHOOSE i \in keep : \A j \in keep : i >= j)

(* After "HTTP": skip to the first space, then skip the spaces. *)
statusText(p) ==
    LET rest == SubSeq(p, 5, Len(p))
        sp == {i \in 1 .. Len(rest) : rest[i] = " "}
        first == IF sp = {} THEN Len(rest) + 1
                 ELSE CHOOSE i \in sp : \A j \in sp : i <= j
        ns == {i \in first .. Len(rest) : rest[i] # " "}
        from == IF ns = {} THEN Len(rest) + 1
                ELSE CHOOSE i \in ns : \A j \in ns : i <= j
    IN SubSeq(rest, from, Len(rest))

(* The if / else if chain over the status text. *)
classifyStatus(t) ==
    IF \E pre \in statusPrefixes.Success : startsWith(t, pre) THEN "Success"
    ELSE IF \E pre \in statusPrefixes.HttpResourceNotFound : startsWith(t, pre)
    THEN "HttpResourceNotFound"
    ELSE IF \E pre \in statusPrefixes.HttpOrAwsFailure : startsWith(t, pre)
    THEN "HttpOrAwsFailure"
    ELSE "HttpFailure"

(* handleHeader_ on the text of one line, as far as the status goes. *)
handleHeaderText(r, raw) ==
    LET p == trim(raw) IN
    IF p # << >> /\ startsWith(p, <<"H", "T", "T", "P">>)
    THEN [r EXCEPT !.status = classifyStatus(statusText(p)),
                   !.httpStatus = statusText(p)]
    ELSE r

(* Header lines offered: lead, head, separator, status text and tail.     *)
LineShapes == {<<<< >>, <<" ">>, << >>>>,
               <<<<" ">>, <<" ", " ">>, <<"\r", "\n">>>>,
               <<<< >>, <<" ">>, <<"\r", "\n">>>>}
LineHeads == {<<"H", "T", "T", "P", "/", "1", ".", "1">>, <<"H", "T", "T", "P">>, <<"h", "t", "t", "p", "/", "1", ".", "1">>, <<"E", "T", "a", "g", ":">>}
StatusTexts ==
    {<<"2", "0", "0", " ", "O", "K">>,
     <<"2", "0", "6", " ", "P", "a", "r", "t", "i", "a", "l", " ", "C", "o", "n", "t", "e", "n", "t">>,
     <<"2", "0", "4", " ", "N", "o", " ", "C", "o", "n", "t", "e", "n", "t">>,
     <<"4", "0", "4", " ", "N", "o", "t">>,
     <<"3", "0", "1", " ", "M", "o", "v", "e", "d">>,
     <<"4", "0", "0", " ", "B", "a", "d">>,
     <<"4", "0", "3", " ", "F", "o", "r", "b", "i", "d", "d", "e", "n">>,
     <<"4", "0", "9", " ", "C", "o", "n", "f", "l", "i", "c", "t">>,
     <<"5", "0", "0", " ", "I", "n", "t", "e", "r", "n", "a", "l">>,
     <<"5", "0", "3", " ", "S", "e", "r", "v", "i", "c", "e">>,
     <<"5", "0", "3", " ", "S", "l", "o", "w">>,
     <<"2", "0", "0", " ", "O", "K", "A", "Y">>,
     <<"4", "0", "4", " ", "N", "o", "t", " ", "F", "o", "u", "n", "d">>,
     <<"5", "0", "3", " ", "S", "l", "o", "w", " ", "D", "o", "w", "n">>,
     <<"5", "0", "3", " ", "S", "e", "r", "v", "i", "c", "e", " ", "U", "n", "a", "v", "a", "i", "l", "a", "b", "l", "e">>,
     <<"5", "0", "0", " ", "I", "n", "t", "e", "r", "n", "a", "l", " ", "S", "e", "r", "v", "e", "r", " ", "E", "r", "r", "o", "r">>,
     <<"4", "0", "0", " ", "B", "a", "d", " ", "R", "e", "q", "u", "e", "s", "t">>,
     <<"3", "0", "1", " ", "M", "o", "v", "e", "d", " ", "P", "e", "r", "m", "a", "n", "e", "n", "t", "l", "y">>,
     <<"2", "0", "6", " ", "P", "a", "r", "t", "i", "a", "l">>,
     <<"2", "0", "4", " ", "N", "o">>,
     <<"2", "0", "0">>,
     <<"2", "0", "0", " ", "o", "k">>,
     <<"2", "0", "0", " ", "O">>,
     <<"4", "0", "4">>,
     <<"4", "0", "4", " ", "n", "o", "t", " ", "F", "o", "u", "n", "d">>,
     <<"4", "0", "4", " ", "N", "o", "t", "h", "i", "n", "g">>,
     <<"5", "0", "3">>,
     <<"5", "0", "3", " ", "B", "a", "c", "k", "e", "n", "d">>,
     <<"5", "0", "0", " ", "i", "n", "t", "e", "r", "n", "a", "l">>,
     <<"3", "0", "2", " ", "F", "o", "u", "n", "d">>,
     <<"2", "0", "1", " ", "C", "r", "e", "a", "t", "e", "d">>,
     <<"1", "0", "0", " ", "C", "o", "n", "t", "i", "n", "u", "e">>,
     <<"4", "0", "5", " ", "M", "e", "t", "h", "o", "d", " ", "N", "o", "t", " ", "A", "l", "l", "o", "w", "e", "d">>,
     <<>>,
     <<"2", "0">>}

hdrLine(shape, head, text) ==
    /\ xfer.pc = "hdr"
    /\ LET isStatus == startsWith(head, <<"H", "T", "T", "P">>) IN
       xfer' = [handleHeaderText(xfer, shape[1] \o head \o shape[2] \o text \o shape[3]) EXCEPT
                  !.seen = @ \/ isStatus,
                  !.text = IF isStatus THEN text ELSE @,
                  !.last = <<head, text>>]
    /\ UNCHANGED <<connVars, lastCall, wait, fair>>

InitHdr ==
    /\ InitConn
    /\ fair = NoFair
    /\ xfer = [pc |-> "hdr", status |-> "Unexpected", httpStatus |-> << >>,
               seen |-> FALSE, text |-> << >>, last |-> << >>]

NextHdr ==
    \E shape \in LineShapes, head \in LineHeads, text \in StatusTexts :
        hdrLine(shape, head, text)

SpecHdr == InitHdr /\ [][NextHdr]_vars

(* C11: a status line is classified by the prefix of its status text as    *)
(* the table states, any other status text gives HttpFailure, and while no *)
(* status line was handled the status stays Unexpected.                    *)
C11_StatusLineTable ==
    xfer.pc = "hdr" =>
        LET t == xfer.text
            has(pre) == Len(t) >= Len(pre) /\ \A i \in 1 .. Len(pre) : t[i] = pre[i]
        IN
        IF ~xfer.seen THEN xfer.status = "Unexpected"
        ELSE /\ xfer.httpStatus = t
             /\ xfer.status =
                 CASE has(<<"2", "0", "0", " ", "O", "K">>) \/ has(<<"2", "0", "6", " ", "P", "a", "r", "t", "i", "a", "l", " ", "C", "o", "n", "t", "e", "n", "t">>) \/ has(<<"2", "0", "4", " ", "N", "o", " ", "C", "o", "n", "t", "e", "n", "t">>) -> "Success"
                   [] has(<<"4", "0", "4", " ", "N", "o", "t">>) -> "HttpResourceNotFound"
                   [] \/ has(<<"3", "0", "1", " ", "M", "o", "v", "e", "d">>) \/ has(<<"4", "0", "0", " ", "B", "a", "d">>) \/ has(<<"4", "0", "3", " ", "F", "o", "r", "b", "i", "d", "d", "e", "n">>) \/ has(<<"4", "0", "9", " ", "C", "o", "n", "f", "l", "i", "c", "t">>)
                      \/ has(<<"5", "0", "0", " ", "I", "n", "t", "e", "r", "n", "a", "l">>) \/ has(<<"5", "0", "3", " ", "S", "e", "r", "v", "i", "c", "e">>) \/ has(<<"5", "0", "3", " ", "S", "l", "o", "w">>) -> "HttpOrAwsFailure"
                   [] OTHER -> "HttpFailure"

(* A "503 Slow Down" status line was classified and another header line    *)
(* followed it.                                                            *)
C11_Witness ==
    /\ xfer.pc = "hdr" /\ xfer.last # << >> /\ xfer.last[1] = <<"E", "T", "a", "g", ":">>
    /\ xfer.text = <<"5", "0", "3", " ", "S", "l", "o", "w", " ", "D", "o", "w", "n">>
    /\ xfer.status = "HttpOrAwsFailure"

----------------------------------------------------------------------------
(* Part IV.  The SAX hooks of S3Request.  A text is a sequence of the      *)
(* fragments the parser passed.  Under SpecXml xfer is a record with       *)
(* pc = "xml":                                                             *)
(*   status, errorCode, errorMessage, requestId, hostId  m_responseDetails *)
(*   stack                 m_stack[ 0 .. m_stackTop - 1 ]                  *)
(*   ctx, error            m_ctx # NULL, Request::m_error                  *)
(* and, as history: status0 (the status when the body began), docDone (the *)
(* root element was closed), cur (name and text so far of the open child   *)
(* of the root), last (name, text and field value of the last child of a   *)
(* root Error that was closed), populated (a field was assigned),          *)
(* malformed (the parser met text that is not well-formed and reports      *)
(* nothing more), outcome (what S3Request::complete did).                  *)

MaxNest == 3             \* depth of the elements the parser reports
MaxFrags == 2            \* fragments the parser passes for one text

StackSize == 8           \* dimensionOf( m_stack )

ResponseNodeStrings ==
    {"Bucket", "Code", "CommonPrefixes", "Contents", "CreationDate", "ETag",
     "Error", "HostId", "IsTruncated", "Key", "LastModified", "Message", "Name",
     "NextMarker", "Prefix", "RequestId", "Size", "Upload", "UploadId"}

(* getResponseNode: the node of a known name, S3_RESPONSE_NODE_LAST else. *)
getResponseNode(name) == IF name \in ResponseNodeStrings THEN name ELSE "LAST"

(* throwXmlParserError inside a hook: handleXmlPayload_ catches, saves the *)
(* error and returns 0; the parser reports nothing more.                   *)
xmlParserError(r) == [r EXCEPT !.error = S3Exception(errParser)]

(* Variant of startXmlElementImpl without the check of m_stackTop. *)
startXmlElementImpl_noCheck(r, localName) ==
    [r EXCEPT !.stack = Append(@, getResponseNode(localName))]

(* S3Request::startXmlElementImpl, with onStartXmlElement of S3Request. *)
startXmlElementImpl(r, localName) ==
    IF Len(r.stack) >= StackSize THEN xmlParserError(r)
    ELSE [r EXCEPT !.stack = Append(@, getResponseNode(localName))]

(* S3Request::setXmlValueImpl, with onSetXmlValue of S3Request.  assign    *)
(* makes the field the fragment passed.                                    *)
setXmlValueImpl(r, value) ==
    IF Len(r.stack) = 2 /\ r.stack[1] = "Error"
    THEN LET r1 == CASE r.stack[2] = "Code" -> [r EXCEPT !.errorCode = <<value>>]
                     [] r.stack[2] = "Message" -> [r EXCEPT !.errorMessage = <<value>>]
                     [] r.stack[2] = "RequestId" -> [r EXCEPT !.requestId = <<value>>]
                     [] r.stack[2] = "HostId" -> [r EXCEPT !.hostId = <<value>>]
                     [] OTHER -> r
         IN IF r1.status \in {"HttpResourceNotFound", "HttpOrAwsFailure"}
            THEN [r1 EXCEPT !.status = "FailureWithDetails"]
            ELSE r1
    ELSE r

(* S3Request::endXmlElementImpl, with onEndXmlElement of S3Request. *)
endXmlElementImpl(r) ==
    IF Len(r.stack) = 0 THEN xmlParserError(r)
    ELSE [r EXCEPT !.stack = SubSeq(@, 1, Len(@) - 1)]

ErrorFields == [Code |-> "errorCode", Message |-> "errorMessage",
                RequestId |-> "requestId", HostId |-> "hostId"]

(* The parser reports events of a well-formed document while no hook has   *)
(* failed.  Below the children of the root only unknown elements are       *)
(* offered: the hooks of S3Request read the names of the two outer levels. *)
Parsing == /\ xfer.pc = "xml" /\ xfer.ctx /\ xfer.error = NULL /\ ~xfer.docDone
           /\ ~xfer.malformed

saxStart(name) ==
    /\ Parsing
    /\ Len(xfer.path) < MaxNest
    /\ Len(xfer.path) >= 2 => name = "Resource"
    /\ xfer' = [startXmlElementImpl(xfer, name) EXCEPT
                  !.path = Append(@, name),
                  !.cur = IF Len(xfer.path) = 1 THEN << >> ELSE @]
    /\ UNCHANGED <<connVars, lastCall, wait, fair>>

saxChars(value) ==
    /\ Parsing
    /\ Len(xfer.path) > 0
    /\ Len(xfer.cur) < MaxFrags
    /\ xfer' = [setXmlValueImpl(xfer, value) EXCEPT
                  !.cur = IF Len(xfer.path) = 2 THEN Append(@, value) ELSE @,
                  !.populated = @ \/ (/\ Len(xfer.path) = 2 /\ xfer.path[1] = "Error"
                                      /\ xfer.path[2] \in DOMAIN ErrorFields)]
    /\ UNCHANGED <<connVars, lastCall, wait, fair>>

saxEnd ==
    /\ Parsing
    /\ Len(xfer.path) > 0
    /\ LET r == endXmlElementImpl(xfer)
           name == xfer.path[Len(xfer.path)]
       IN xfer' = [r EXCEPT
                     !.path = SubSeq(@, 1, Len(@) - 1),
                     !.docDone = Len(xfer.path) = 1,
                     !.last = IF /\ Len(xfer.path) = 2 /\ xfer.path[1] = "Error"
                                 /\ name \in DOMAIN ErrorFields
                              THEN [name |-> name, text |-> xfer.cur,
                                    field |-> r[ErrorFields[name]]]
                              ELSE @]
    /\ UNCHANGED <<connVars, lastCall, wait, fair>>

(* The body goes on with text that is not well-formed: xmlParseChunk comes *)
(* back with the parser's error code, which handleXmlPayload_ does not     *)
(* read, and no handler is called again (no error handler is set in        *)
(* m_parser).                                                               *)
saxMalformed ==
    /\ Parsing
    /\ xfer' = [xfer EXCEPT !.malformed = TRUE]
    /\ UNCHANGED <<connVars, lastCall, wait, fair>>

(* S3Request::complete( CURLE_OK ) at the end of the body, wherever it     *)
(* ends: xmlParseChunk( m_ctx, 0, 0, 1 ), whose result is not read, frees  *)
(* the context, then raiseIfError.                                          *)
xmlComplete ==
    /\ xfer.pc = "xml"
    /\ xfer' = [xfer EXCEPT !.pc = "completed", !.ctx = FALSE,
                            !.outcome = IF xfer.error # NULL THEN xfer.error
                                        ELSE "returned"]
    /\ UNCHANGED <<connVars, lastCall, wait, fair>>

Statuses == {"Unexpected", "Success", "FailureWithDetails", "HttpFailure",
             "HttpResourceNotFound", "HttpOrAwsFailure"}

ElemNames == {"Error", "Code", "Message", "RequestId", "HostId", "Resource"}

Frags == {"a", "b"}

(* The body begins: the status is what the headers left, the parser        *)
(* context exists for the statuses handleXmlPayload_ creates it for.       *)
InitXml ==
    /\ InitConn
    /\ fair = NoFair
    /\ \E st \in Statuses :
          xfer = [pc |-> "xml", status |-> st, status0 |-> st,
                  errorCode |-> << >>, errorMessage |-> << >>,
                  requestId |-> << >>, hostId |-> << >>,
                  stack |-> << >>, error |-> NULL,
                  ctx |-> st \in {"Success", "HttpResourceNotFound", "HttpOrAwsFailure"},
                  path |-> << >>, docDone |-> FALSE, cur |-> << >>,
                  last |-> [name |-> "", text |-> << >>, field |-> << >>],
                  populated |-> FALSE, malformed |-> FALSE, outcome |-> "none"]

NextXml ==
    \/ \E name \in ElemNames : saxStart(name)
    \/ \E value \in Frags : saxChars(value)
    \/ saxEnd
    \/ saxMalformed
    \/ xmlComplete

SpecXml == InitXml /\ [][NextXml]_vars

(* C12: with the status HttpResourceNotFound or HttpOrAwsFailure, text of  *)
(* Code, Message, RequestId or HostId directly under a root Error makes    *)
(* the status FailureWithDetails and the field holds the element's text;   *)
(* Success and HttpFailure are never changed by parsing the body.          *)
C12_ErrorEnvelope ==
    xfer.pc = "xml" =>
        /\ xfer.status0 \in {"HttpResourceNotFound", "HttpOrAwsFailure"} =>
               /\ xfer.populated => xfer.status = "FailureWithDetails"
               /\ xfer.last.name # "" => xfer.last.field = xfer.last.text
        /\ xfer.status0 \in {"Success", "HttpFailure"} => xfer.status = xfer.status0


----------------------------------------------------------------------------
(* Claims about the operation around a request (SpecCb). *)

(* The failure handleErrors or complete threw, under its summary if any. *)
innerOf(f) == IF "inner" \in DOMAIN f THEN f.inner ELSE f

(* The missing-key overrides of GET and DELETE apply to the details. *)
missingKey(r) ==
    /\ r.status = "FailureWithDetails"
    /\ \/ r.verb = "GET" /\ r.errorCode \in {"NoSuchKey", "NoSuchEntity"}
       \/ r.verb = "DEL" /\ r.errorCode = "NoSuchEntity"

(* C13: when complete has returned the details, the final classification   *)
(* decides the outcome of the operation: Success returns; Unexpected       *)
(* raises the Unexpected error; HttpResourceNotFound raises the not-found  *)
(* error naming the URL; HttpFailure and HttpOrAwsFailure raise the HTTP   *)
(* error carrying the status text; FailureWithDetails raises the AWS error *)
(* carrying message, code and request id.  An operation that returns has   *)
(* classification Success, or is a missing-key GET or DELETE.              *)
C13_ClassificationOutcome ==
    xfer.pc = "done" =>
        LET f == innerOf(xfer.failure) IN
        /\ xfer.outcome = "returned" =>
              CASE xfer.final = "Success" -> xfer.failure = NoFailure
                [] xfer.final = "Unexpected" -> f = [fmt |-> errUnexpected, args |-> <<>>]
                [] xfer.final = "HttpResourceNotFound" ->
                       f = [fmt |-> errHTTPResourceNotFound, args |-> <<xfer.url>>]
                [] xfer.final \in {"HttpFailure", "HttpOrAwsFailure"} ->
                       /\ f = [fmt |-> errHTTP, args |-> <<xfer.httpStatus>>]
                       /\ xfer.httpStatus # ""
                [] xfer.final = "FailureWithDetails" ->
                       /\ f = [fmt |-> errAWS,
                               args |-> <<xfer.errorMessage, xfer.errorCode,
                                          xfer.requestId>>]
                       /\ xfer.errorCode \in ErrorCodes
        /\ xfer.failure = NoFailure =>
              /\ xfer.outcome = "returned"
              /\ xfer.status = "Success" \/ missingKey(xfer)

(* A PUT answered 403 with an Error document raised the AWS error. *)
C13_Witness ==
    /\ xfer.pc = "done"
    /\ xfer.verb = "PUT"
    /\ xfer.httpStatus = "403 Forbidden"
    /\ xfer.final = "FailureWithDetails"
    /\ innerOf(xfer.failure).fmt = errAWS

(* The number of summaries around a failure. *)
RECURSIVE wraps(_)
wraps(f) == IF "inner" \in DOMAIN f THEN 1 + wraps(f.inner) ELSE 0

(* f is the summary "S3 <op> for '<key>' failed. <inner>" of the operation *)
(* on request r, around a failure that is not itself a summary.            *)
isSummary(r, f) ==
    /\ f.fmt = errS3Summary
    /\ wraps(f) = 1
    /\ f.args \in {<<opName(r.verb, a), r.key>> : a \in BOOLEAN}

C15_MissingKeyGet ==
    /\ xfer.pc = "done" /\ xfer.verb = "GET" /\ xfer.outcome = "returned"
    /\ xfer.status = "FailureWithDetails"
    /\ xfer.errorCode \in {"NoSuchKey", "NoSuchEntity"}
    => /\ xfer.failure = NoFailure
       /\ xfer.response.loadedContentLength = -1
       /\ xfer.response.isTruncated = FALSE
       /\ xfer.sunk = 0

(* A GET answered 404 with an Error document of Code NoSuchKey returned. *)
C15_Witness ==
    /\ xfer.pc = "done" /\ xfer.verb = "GET"
    /\ xfer.httpStatus = "404 Not Found"
    /\ xfer.errorCode = "NoSuchKey"
    /\ xfer.lastCb.name = "xml"
    /\ xfer.failure = NoFailure
    /\ xfer.response.loadedContentLength = -1

C16_WitnessRaised ==
    /\ xfer.pc = "done" /\ xfer.verb = "DEL"
    /\ xfer.errorCode = "NoSuchKey"
    /\ innerOf(xfer.failure).fmt = errAWS

----------------------------------------------------------------------------
(* Part V.  GET into a caller's buffer: S3GetRequest with its built-in     *)
(* S3GetResponseBufferLoader.  Under SpecBuf xfer is the request record of *)
(* Part II with, in addition:                                               *)
(*   p, left   the loader's write offset into the buffer and room left     *)
(*   mem       the caller's memory from the buffer's first byte on: the    *)
(*             buffer (B bytes) and what lies behind it; 0 is untouched     *)
(*   N, B, sent   history: the object's length, the buffer's size, the     *)
(*             number of body bytes the engine has passed                   *)
(* Byte i of the object (counted from 1) has the value i.                  *)

MaxObject == 3           \* bytes of the object
MaxBuffer == 3           \* bytes of the caller's buffer

min(a, b) == IF a < b THEN a ELSE b

(* Variant of onLoad that copies the whole chunk. *)
onLoad_wholeChunk(r, chunkData) ==
    IF r.left = 0 THEN [ret |-> 0, r |-> r]
    ELSE LET toCopy == Len(chunkData) IN
         [ret |-> toCopy,
          r |-> [r EXCEPT
                    !.mem = [i \in DOMAIN @ |->
                                IF r.p <= i /\ i < r.p + toCopy
                                THEN chunkData[i - r.p + 1] ELSE @[i]],
                    !.p = @ + toCopy,
                    !.left = IF @ < toCopy THEN 0 ELSE @ - toCopy]]

(* S3GetResponseBufferLoader::onLoad( chunkData, chunkSize ): the value    *)
(* returned and the loader and memory after it.                            *)
onLoad(r, chunkData) ==
    IF r.left = 0 THEN [ret |-> 0, r |-> r]
    ELSE LET toCopy == min(Len(chunkData), r.left) IN
         [ret |-> toCopy,
          r |-> [r EXCEPT
                    !.mem = [i \in DOMAIN @ |->
                                IF r.p <= i /\ i < r.p + toCopy
                                THEN chunkData[i - r.p + 1] ELSE @[i]],
                    !.p = @ + toCopy,
                    !.left = @ - toCopy]]

(* S3GetRequest( key, buffer, size ) after prepare, for an object of n     *)
(* bytes and a buffer of b bytes.                                           *)
PreparedGet(n, b) ==
    [f \in DOMAIN Prepared("GET") \cup {"p", "left", "mem", "N", "B", "sent"} |->
        CASE f = "p" -> 0
          [] f = "left" -> b
          [] f = "mem" -> [i \in 0 .. (MaxBuffer + MaxObject - 1) |-> 0]
          [] f = "N" -> n
          [] f = "B" -> b
          [] f = "sent" -> 0
          [] OTHER -> Prepared("GET")[f]]

(* get( bucket, key, buffer, size, response ) starts; the engine passes    *)
(* the status line 200 OK.                                                  *)
bufStart(n, b) ==
    /\ xfer.pc = "none"
    /\ xfer' = PreparedGet(n, b)
    /\ UNCHANGED <<connVars, lastCall, wait, fair>>

bufHeader(line) ==
    /\ xfer.pc = "running" /\ ~xfer.bodyStarted
    /\ xfer.status = "Unexpected" <=> line = "s200"
    /\ xfer.etag = ""
    /\ xfer' = handleHeader_(xfer, line, "none")
    /\ UNCHANGED <<connVars, lastCall, wait, fair>>

(* The engine passes the next n bytes of the body to handleBinaryLoad_,    *)
(* which passes them to the loader.                                         *)
bufChunk(n) ==
    /\ xfer.pc = "running" /\ xfer.status = "Success"
    /\ n <= xfer.N - xfer.sent
    /\ n = 0 => xfer.lastCb.name = "header" \/ xfer.lastCb.offered # 0
    /\ LET chunkData == [i \in 1 .. n |-> xfer.sent + i]
           o == onLoad([xfer EXCEPT !.bodyStarted = TRUE, !.sent = @ + n], chunkData)
       IN xfer' = handleBinaryLoad_(o.r, n, o.ret, "none", FALSE)
    /\ UNCHANGED <<connVars, lastCall, wait, fair>>

(* The engine ends the transfer: after the whole body, or aborted. *)
bufFinish ==
    /\ xfer.pc = "aborted" \/ (xfer.pc = "running" /\ xfer.sent = xfer.N)
    /\ xfer.status = "Success"
    /\ engineFinish(IF xfer.pc = "aborted" THEN "CURLE_WRITE_ERROR" ELSE "CURLE_OK")

InitBuf == InitCb

NextBuf ==
    \/ \E n \in 0 .. MaxObject, b \in 0 .. MaxBuffer : bufStart(n, b)
    \/ \E line \in {"s200", "etag"} : bufHeader(line)
    \/ \E n \in 0 .. MaxObject : bufChunk(n)
    \/ bufFinish
    \/ complete_(FALSE, "none")
    \/ opEnd(FALSE)

SpecBuf == InitBuf /\ [][NextBuf]_vars

(* C17: a GET into a buffer of B bytes of an object of N bytes, however    *)
(* the body is split into chunks, returns with loadedContentLength =       *)
(* min(N, B) and isTruncated = (B < N); the first min(N, B) bytes of the   *)
(* buffer are the first bytes of the object in order, and no byte at or    *)
(* beyond offset B was written.                                             *)
C17_BufferSink ==
    xfer.pc = "done" /\ "mem" \in DOMAIN xfer =>
        /\ xfer.failure = NoFailure
        /\ xfer.response.loadedContentLength = min(xfer.N, xfer.B)
        /\ xfer.response.isTruncated = (xfer.B < xfer.N)
        /\ \A i \in DOMAIN xfer.mem :
              xfer.mem[i] = IF i < min(xfer.N, xfer.B) THEN i + 1 ELSE 0

(* An object of 3 bytes passed in two chunks filled a buffer of 2 bytes    *)
(* within the second chunk.                                                 *)
C17_Witness ==
    /\ xfer.pc = "done" /\ "mem" \in DOMAIN xfer
    /\ xfer.N = 3 /\ xfer.B = 2
    /\ xfer.sent = 3
    /\ xfer.lastCb = [name |-> "binary", offered |-> 2, ret |-> 1]
    /\ xfer.response.isTruncated

----------------------------------------------------------------------------
(* Claims about the sink of a GET (SpecOp). *)

C19_TruncatedIffShort ==
    xfer.pc # "none" /\ xfer.verb = "GET" =>
        /\ xfer.truncated <=> xfer.shortAt # 0
        /\ xfer.shortAt # 0 => xfer.calls = xfer.shortAt
        /\ xfer.pc = "done" /\ xfer.failure = NoFailure =>
              (xfer.response.isTruncated <=> xfer.shortAt # 0)

(* The sink took a first chunk whole and 1 byte of the second, which was   *)
(* the last callback; the GET returned truncated.                          *)
C19_Witness ==
    /\ xfer.pc = "done" /\ xfer.verb = "GET" /\ xfer.failure = NoFailure
    /\ xfer.shortAt = 3 /\ xfer.calls = 3
    /\ xfer.lastCb = [name |-> "binary", offered |-> 2, ret |-> 1]
    /\ xfer.response.isTruncated

(* C20: a GET with status Success whose sink returned short without        *)
(* raising, and whose transfer the engine ended with the write-abort code, *)
(* returns (get and completeGet alike) with isTruncated = true and the     *)
(* etag the response carried.                                               *)
C20_TruncatedGetSucceeds ==
    /\ xfer.pc = "done" /\ xfer.verb = "GET"
    /\ xfer.status = "Success"
    /\ xfer.shortAt # 0 /\ xfer.origins = {}
    /\ xfer.curlCode = "CURLE_WRITE_ERROR"
    => /\ xfer.failure = NoFailure
       /\ xfer.response.isTruncated
       /\ xfer.response.etag = xfer.etag

(* A GET answered 200 with an ETag, whose sink took 1 byte of 2, returned  *)
(* truncated with the etag.                                                 *)
C20_Witness ==
    /\ xfer.pc = "done" /\ xfer.verb = "GET"
    /\ xfer.httpStatus = "200 OK"
    /\ xfer.curlCode = "CURLE_WRITE_ERROR"
    /\ xfer.lastCb = [name |-> "binary", offered |-> 2, ret |-> 1]
    /\ xfer.failure = NoFailure
    /\ xfer.response = [loadedContentLength |-> 1, isTruncated |-> TRUE, etag |-> "e1"]

----------------------------------------------------------------------------
(* Part VI.  Operations one after another on one connection (connection 0) *)
(* and the configuration of its transport handle.  Under SpecSeq xfer is   *)
(* the request record of Part II with, in addition:                         *)
(*   m_timeout   S3Connection::m_timeout                                    *)
(*   curl        the options of the easy handle m_curl                      *)
(*   id          the request object (the number of the operation)           *)
(*   async, size, range   the operation: pendXxx or the synchronous form,  *)
(*               the bytes to upload, whether a byte range is asked for     *)
(*   prev        history: the verb of the operation before this one and how *)
(*               it ended ("returned", "raised", "cancelled")               *)
(* Between operations xfer.pc is "idle", "done" or "cancelled".            *)

MaxOps == 3                     \* operations on the connection
s_defaultTimeout == 120000      \* 120 * 1000

(* The options of an easy handle after curl_easy_init or curl_easy_reset:  *)
(* GET, nothing to upload, no headers, no URL, no callbacks' data.         *)
curl_easy_reset ==
    [method |-> "GET", UPLOAD |-> FALSE, INFILESIZE |-> -1,
     POSTFIELDSIZE |-> -1, CUSTOMREQUEST |-> "",
     HTTPHEADER |-> [owner |-> 0, range |-> FALSE], URL |-> 0,
     WRITEHEADER |-> 0, READDATA |-> 0, WRITEDATA |-> 0,
     TIMEOUT_MS |-> 0]

(* curl_easy_setopt of the options that select the request method. *)
setMethod(h, opt) ==
    CASE opt = "HTTPGET" -> [h EXCEPT !.method = "GET", !.UPLOAD = FALSE]
      [] opt = "UPLOAD" -> [h EXCEPT !.method = "PUT", !.UPLOAD = TRUE]
      [] opt = "POST" -> [h EXCEPT !.method = "POST"]

(* S3Request::onPrepare and the onPrepare of the request's class, then     *)
(* setUrl: the options the request sets on the handle it is given.         *)
onPrepare(h, op) ==
    LET h1 == [h EXCEPT !.WRITEHEADER = op.id, !.READDATA = op.id]
        h2 == CASE op.verb \in {"GET", "LIST"} -> setMethod(h1, "HTTPGET")
                [] op.verb = "PUT" ->
                       setMethod([h1 EXCEPT !.INFILESIZE = op.size], "UPLOAD")
                [] op.verb = "DEL" -> [h1 EXCEPT !.CUSTOMREQUEST = "DELETE"]
                [] op.verb = "POST" ->
                       [setMethod(h1, "POST") EXCEPT !.POSTFIELDSIZE = 0]
    IN [h2 EXCEPT !.URL = op.id]

(* Variant of prepare that sets the options on the handle as it is. *)
prepare_noReset(h, m_timeout, op) ==
    onPrepare([h EXCEPT !.TIMEOUT_MS = m_timeout,
                        !.HTTPHEADER = [owner |-> op.id, range |-> op.range]], op)

(* S3Connection::prepare (through init), then setUrl: the handle h after   *)
(* them, for the operation op of a connection whose timeout is m_timeout.  *)
prepare(h, m_timeout, op) ==
    onPrepare([curl_easy_reset EXCEPT
                  !.TIMEOUT_MS = m_timeout,
                  !.HTTPHEADER = [owner |-> op.id, range |-> op.range]], op)

withFields(r, e) == [f \in DOMAIN r \cup DOMAIN e |-> IF f \in DOMAIN e THEN e[f] ELSE r[f]]

Between == {"idle", "done", "cancelled"}

NoPrev == [verb |-> "none", end |-> "none"]

ended(r) ==
    IF r.pc = "cancelled" THEN "cancelled"
    ELSE IF r.failure # NoFailure THEN "raised" ELSE "returned"

(* What prepare asserts and what the caller's thread needs to call it. *)
canStart == Ready /\ alive[0] /\ asyncRequest[0] = NULL /\ xfer.pc \in Between

(* S3Connection::setTimeout( timeout ). *)
setTimeout(timeout) ==
    /\ xfer.pc \in Between
    /\ xfer.id < MaxOps
    /\ xfer' = [xfer EXCEPT !.m_timeout = timeout]
    /\ UNCHANGED <<connVars, lastCall, wait, fair>>

(* An operation starts: get, put, del, listObjects, initiateMultipartUpload *)
(* up to execute, or pendGet, pendPut, pendDel.                             *)
seqStart(verb, async, size, range) ==
    /\ canStart
    /\ xfer.id < MaxOps
    /\ async => verb \in {"GET", "PUT", "DEL"}
    /\ size # 0 => verb = "PUT"
    /\ range => verb = "GET"
    /\ LET op == [id |-> xfer.id + 1, verb |-> verb, async |-> async,
                  size |-> size, range |-> range]
       IN xfer' = withFields(Prepared(verb),
                     op @@ [m_timeout |-> xfer.m_timeout,
                            prev |-> IF xfer.pc = "idle" THEN NoPrev
                                     ELSE [verb |-> xfer.verb, end |-> ended(xfer)],
                            curl |-> prepare(xfer.curl, xfer.m_timeout, op)])
    /\ IF async
       THEN pendConn(0, CASE verb = "GET" -> "get" [] verb = "PUT" -> "put"
                           [] verb = "DEL" -> "del",
                     CASE verb = "GET" -> "pendGet" [] verb = "PUT" -> "pendPut"
                       [] verb = "DEL" -> "pendDel", "none")
       ELSE UNCHANGED <<connVars, lastCall, wait, fair>>

(* The header callback; setPayloadHandler sets CURLOPT_WRITEDATA with      *)
(* CURLOPT_WRITEFUNCTION.                                                   *)
seqHeader(line) ==
    /\ CanCall
    /\ ~xfer.bodyStarted
    /\ LET r == handleHeader_(xfer, line, "none") IN
       xfer' = [r EXCEPT !.curl.WRITEDATA = IF r.writeFn # "noop" THEN r.id ELSE @]
    /\ UNCHANGED <<connVars, lastCall, wait, fair>>

(* The transfer ends with the result code; it runs into the overall        *)
(* timeout only when the handle has one (CURLOPT_TIMEOUT_MS 0: none).      *)
seqFinish(code) ==
    /\ code = "CURLE_OPERATION_TIMEDOUT" => xfer.curl.TIMEOUT_MS > 0
    /\ engineFinish(code)

(* The pump of an asynchronous operation reports the finished transfer. *)
seqTransportFinish ==
    /\ xfer.pc = "finished" /\ xfer.async
    /\ transportFinish(0)

(* The operation ends: execute returns into the synchronous operation, or  *)
(* completeGet / completePut / completeDel is called.                       *)
seqEnd ==
    /\ xfer.pc = "finished"
    /\ LET r == operationEnd(requestComplete(xfer, FALSE, "none"), xfer.async)
           raised == r.failure # NoFailure
           op == opName(xfer.verb, xfer.async)
       IN /\ xfer' = r
          /\ IF xfer.async
             THEN completeConn(0, op, raised)
             ELSE syncOpConn(0, op, raised)

(* cancelAsync while the asynchronous operation is pending. *)
seqCancel ==
    /\ xfer.pc \notin Between
    /\ xfer.async
    /\ cancelAsyncConn(0)
    /\ xfer' = [xfer EXCEPT !.pc = "cancelled"]

InitSeq ==
    /\ InitConn
    /\ fair = NoFair
    /\ xfer = [pc |-> "idle", id |-> 0, m_timeout |-> s_defaultTimeout,
               curl |-> curl_easy_reset]

TimeoutArgs == {0, 30}

NextSeq ==
    \/ \E t \in TimeoutArgs : setTimeout(t)
    \/ \E v \in Verbs \cup {"POST"}, a \in BOOLEAN, n \in {0, 2}, rg \in BOOLEAN :
           seqStart(v, a, n, rg)
    \/ \E line \in {"s200", "s403"} : seqHeader(line)
    \/ \E k \in 0 .. 1 : cbWrite(1, k, "none", FALSE, FALSE, "none")
    \/ cbRead(1, 1, "none", FALSE)
    \/ \E code \in {"CURLE_OK", "CURLE_WRITE_ERROR", "CURLE_OPERATION_TIMEDOUT"} :
           seqFinish(code)
    \/ seqTransportFinish
    \/ seqEnd
    \/ seqCancel

SpecSeq == InitSeq /\ [][NextSeq]_vars

(* The texts of the model that contain the substring "timed out". *)
containsTimedOut(msg) ==
    CASE msg = "Operation timed out after 30 milliseconds with 4096 bytes received." -> TRUE
      [] msg = "Timeout was reached." -> FALSE
      [] OTHER -> FALSE

(* C21: a get, synchronous or pended and completed, whose transfer ran     *)
(* into the overall timeout raises the summary of a transport error whose  *)
(* text contains "timed out", also when a Success status line and part of  *)
(* the body were received; after it the connection has no pending request  *)
(* and the next operation may start.                                        *)
C21_TimeoutIsTransportError ==
    (xfer.pc = "done" /\ xfer.verb = "GET"
        /\ xfer.curlCode = "CURLE_OPERATION_TIMEDOUT") =>
        /\ isSummary(xfer, xfer.failure)
        /\ xfer.failure.args = <<opName("GET", xfer.async), xfer.key>>
        /\ xfer.failure.inner = rethrown(errCurlMsg(xfer.errorBuffer))
        /\ containsTimedOut(xfer.failure.inner.fmt)
        /\ lastCall.raised
        /\ canStart

C21_Witness ==
    /\ xfer.pc = "done" /\ xfer.verb = "GET" /\ xfer.async
    /\ xfer.curlCode = "CURLE_OPERATION_TIMEDOUT"
    /\ xfer.status = "Success" /\ xfer.loaded > 0
    /\ containsTimedOut(innerOf(xfer.failure).fmt)
    /\ asyncRequest[0] = NULL

C21_WitnessSync ==
    /\ xfer.pc = "done" /\ xfer.verb = "GET" /\ ~xfer.async
    /\ xfer.curlCode = "CURLE_OPERATION_TIMEDOUT"
    /\ xfer.status = "Success" /\ xfer.loaded > 0
    /\ containsTimedOut(innerOf(xfer.failure).fmt)
    /\ xfer.id < MaxOps /\ canStart

(* C22: after setTimeout( 0 ) the overall timeout is the default again: an *)
(* operation prepared while m_timeout is 0 runs with the overall timeout   *)
(* of a freshly constructed connection, s_defaultTimeout (120 s).           *)
C22_ZeroRestoresDefaultTimeout ==
    (xfer.pc \notin Between /\ xfer.m_timeout = 0) =>
        xfer.curl.TIMEOUT_MS = s_defaultTimeout

(* An operation runs after setTimeout( 0 ): the handle has no timeout. *)
C22_ZeroTimeoutRuns ==
    /\ xfer.pc \notin Between
    /\ xfer.m_timeout = 0
    /\ xfer.curl.TIMEOUT_MS = 0

(* An operation of a connection whose timeout was never set. *)
C22_FreshTimeout ==
    (xfer.pc \notin Between /\ xfer.id = 1 /\ xfer.m_timeout = s_defaultTimeout) =>
        xfer.curl.TIMEOUT_MS = s_defaultTimeout

(* The configuration an operation asks for, by its verb: what a handle     *)
(* fresh from curl_easy_init would hold after the operation's own options. *)
configOf(op, timeout) ==
    LET base == [TIMEOUT_MS |-> timeout,
                 HTTPHEADER |-> [owner |-> op.id, range |-> op.range],
                 URL |-> op.id, WRITEHEADER |-> op.id, READDATA |-> op.id,
                 WRITEDATA |-> 0]
    IN CASE op.verb \in {"GET", "LIST"} ->
                base @@ [method |-> "GET", UPLOAD |-> FALSE, INFILESIZE |-> -1,
                         POSTFIELDSIZE |-> -1, CUSTOMREQUEST |-> ""]
         [] op.verb = "PUT" ->
                base @@ [method |-> "PUT", UPLOAD |-> TRUE, INFILESIZE |-> op.size,
                         POSTFIELDSIZE |-> -1, CUSTOMREQUEST |-> ""]
         [] op.verb = "DEL" ->
                base @@ [method |-> "GET", UPLOAD |-> FALSE, INFILESIZE |-> -1,
                         POSTFIELDSIZE |-> -1, CUSTOMREQUEST |-> "DELETE"]
         [] op.verb = "POST" ->
                base @@ [method |-> "POST", UPLOAD |-> FALSE, INFILESIZE |-> -1,
                         POSTFIELDSIZE |-> 0, CUSTOMREQUEST |-> ""]

(* C23: during an operation the configuration of the handle is the one the *)
(* operation asks for and nothing else: verb, upload / POST mode and body  *)
(* size, header list and Range, URL, and the request the header, read and  *)
(* write callbacks are given (the write callback's once the payload        *)
(* handler is set), whatever operation ran before on the connection and    *)
(* however it ended.                                                        *)
C23_HandleOfThisOperation ==
    xfer.pc \notin Between =>
        /\ [xfer.curl EXCEPT !.WRITEDATA = 0] = configOf(xfer, xfer.m_timeout)
        /\ xfer.curl.WRITEDATA \in {0, xfer.id}
        /\ xfer.curl.WRITEDATA = xfer.id <=> xfer.writeFn # "noop"

C23_Witness ==
    /\ xfer.pc \notin Between
    /\ xfer.verb = "GET" /\ ~xfer.range
    /\ xfer.prev = [verb |-> "DEL", end |-> "cancelled"]
    /\ xfer.curl.CUSTOMREQUEST = ""
    /\ xfer.curl.WRITEDATA = xfer.id

C23_WitnessAfterUpload ==
    /\ xfer.pc \notin Between
    /\ xfer.verb = "LIST"
    /\ xfer.prev = [verb |-> "PUT", end |-> "raised"]
    /\ ~xfer.curl.UPLOAD /\ xfer.curl.INFILESIZE = -1

----------------------------------------------------------------------------
(* Part VII.  The element stack of S3Request under any sequence of start   *)
(* and end events, well-formed or not.  Under SpecStack xfer is a record   *)
(* with pc = "stack": stack and error as in Part IV and, as history, path  *)
(* (the elements that are open in the events so far), stray (an end event  *)
(* came with no element open) and ev (the last event: its kind, its name   *)
(* and the depth of the stack before it).                                   *)

MaxDepth == 9            \* elements the events nest

stackStart(name) ==
    /\ xfer.pc = "stack" /\ xfer.error = NULL
    /\ Len(xfer.path) < MaxDepth
    /\ xfer' = [startXmlElementImpl(xfer, name) EXCEPT
                  !.path = Append(@, name),
                  !.ev = [kind |-> "start", name |-> name, depth |-> Len(xfer.stack)]]
    /\ UNCHANGED <<connVars, lastCall, wait, fair>>

stackEnd ==
    /\ xfer.pc = "stack" /\ xfer.error = NULL
    /\ xfer' = [endXmlElementImpl(xfer) EXCEPT
                  !.path = IF Len(@) = 0 THEN @ ELSE SubSeq(@, 1, Len(@) - 1),
                  !.stray = @ \/ Len(xfer.path) = 0,
                  !.ev = [kind |-> "end", name |-> "", depth |-> Len(xfer.stack)]]
    /\ UNCHANGED <<connVars, lastCall, wait, fair>>

InitStack ==
    /\ InitConn
    /\ fair = NoFair
    /\ xfer = [pc |-> "stack", stack |-> << >>, error |-> NULL,
               path |-> << >>, stray |-> FALSE,
               ev |-> [kind |-> "none", name |-> "", depth |-> 0]]

NextStack ==
    \/ \E name \in {"Contents", "Resource"} : stackStart(name)
    \/ stackEnd

SpecStack == InitStack /\ [][NextStack]_vars

(* C24: the depth of the element stack is always between 0 and 8.  A start *)
(* event with 8 elements open raises the parser error and writes nothing;  *)
(* with fewer open it pushes the id of the tag, the sentinel for a tag     *)
(* that is not recognized.  An end event with none open raises the parser  *)
(* error; with some open it pops one.  While the events are those of a     *)
(* well-formed document nested at most 8 deep the stack is as deep as the  *)
(* document is open, so it is empty when the document is closed.           *)
C24_StackDepth ==
    xfer.pc = "stack" =>
        LET depth == Len(xfer.stack)
            e == xfer.ev
        IN /\ depth \in 0 .. 8
           /\ e.kind = "start" =>
                 IF e.depth = 8
                 THEN xfer.error = errParser /\ depth = 8
                 ELSE /\ xfer.error = NULL /\ depth = e.depth + 1
                      /\ xfer.stack[depth] =
                            (IF e.name = "Resource" THEN "LAST" ELSE e.name)
           /\ e.kind = "end" =>
                 IF e.depth = 0
                 THEN xfer.error = errParser /\ depth = 0
                 ELSE xfer.error = NULL /\ depth = e.depth - 1
           /\ (xfer.error = NULL /\ ~xfer.stray) => depth = Len(xfer.path)

(* The ninth nested element was refused. *)
C24_Witness ==
    /\ xfer.pc = "stack"
    /\ xfer.ev.kind = "start" /\ xfer.ev.depth = 8
    /\ Len(xfer.stack) = 8 /\ xfer.stack[8] = "LAST" /\ xfer.stack[1] = "Contents"
    /\ xfer.error = errParser

(* A document nested 8 deep was closed: the stack is empty. *)
C24_WitnessClosed ==
    /\ xfer.pc = "stack"
    /\ xfer.ev = [kind |-> "end", name |-> "", depth |-> 1]
    /\ xfer.path = << >> /\ xfer.stack = << >> /\ xfer.error = NULL

(* An end event with no element open was refused. *)
C24_WitnessStrayEnd ==
    /\ xfer.pc = "stack"
    /\ xfer.ev.kind = "end" /\ xfer.ev.depth = 0
    /\ xfer.error = errParser

----------------------------------------------------------------------------
(* Claims about a malformed body (SpecXml). *)

(* The body ended inside the root element, or held text that is not        *)
(* well-formed.                                                             *)
malformedBody(r) == r.malformed \/ Len(r.path) > 0

(* C25: an operation whose response has a Success status line and a body   *)
(* expected to be XML that is not well-formed, or ends before the root     *)
(* element is closed, raises the parser error; it does not return.         *)
C25_MalformedIsParserError ==
    (xfer.pc = "completed" /\ xfer.status0 = "Success" /\ malformedBody(xfer)) =>
        /\ xfer.outcome = errParser
        /\ handleErrors(xfer) # NoFailure \/ xfer.outcome # "returned"

(* A body cut off inside the root element: complete returned the details   *)
(* with the status Success.                                                 *)
C25_CutOffReturns ==
    /\ xfer.pc = "completed" /\ xfer.status0 = "Success"
    /\ Len(xfer.path) = 2 /\ ~xfer.malformed
    /\ xfer.outcome = "returned"
    /\ handleErrors(xfer) = NoFailure

----------------------------------------------------------------------------
(* Part VIII.  S3ListObjectsRequest: the hooks that parse the body of a    *)
(* listing.  A string is the sequence of its characters; the parser passes *)
(* the text of an element in one or more fragments.  Under SpecList xfer   *)
(* is a record with pc = "list":                                            *)
(*   isWalrus, stack, error      m_isWalrus, m_stack, Request::m_error     *)
(*   current                     m_current (key, etag, size, isDir)        *)
(*   m_prefix, m_nextMarker      the members of these names                *)
(*   emitted                     the calls of m_objectEnum->onObject       *)
(* and, as history of the document: path (the open elements), nfr and text *)
(* (fragments and text so far of the open element), step (the children of  *)
(* the open Contents or CommonPrefixes so far), entries (the elements that *)
(* stand for an entry so far), docPrefix and docNextMarker (the text of    *)
(* the request-level Prefix and of NextMarker, Absent if there is none),   *)
(* want (the entry the open or last closed element stands for), got (the   *)
(* entry passed to the enumerator for it), matched (every entry passed     *)
(* before was the one its element stands for), docDone.                    *)

MaxEntries == 2          \* Contents and CommonPrefixes elements of a listing

Absent == <<"absent">>

(* S3Object::clear. *)
S3Object_clear == [key |-> << >>, etag |-> << >>, size |-> -1, isDir |-> FALSE]

(* atoll of the digits of a Size element. *)
atoll(text) ==
    CASE text = <<"7">> -> 7
      [] text = <<"0">> -> 0
      [] OTHER -> 0

top(r) == r.stack[Len(r.stack)]

(* Variant of isObjectNode that takes every element below the result. *)
isObjectNode_anyChild(r) ==
    Len(r.stack) = (IF r.isWalrus THEN 3 ELSE 2)

(* S3ListObjectsRequest::isObjectNode. *)
isObjectNode(r) ==
    LET m_stackTop == Len(r.stack) IN
    IF ~r.isWalrus
    THEN m_stackTop = 2 /\ top(r) \in {"Contents", "CommonPrefixes"}
    ELSE \/ m_stackTop = 3 /\ top(r) = "Contents"
         \/ /\ m_stackTop = 4
            /\ top(r) = "Prefix"
            /\ r.stack[m_stackTop - 1] = "CommonPrefixes"

(* S3ListObjectsRequest::onStartXmlElement. *)
onStartXmlElement(r) ==
    IF isObjectNode(r) THEN [r EXCEPT !.current = S3Object_clear] ELSE r

(* S3ListObjectsRequest::onEndXmlElement, with an enumerator whose         *)
(* onObject returns true (S3ObjectArray).                                   *)
onEndXmlElement(r) ==
    IF isObjectNode(r)
    THEN [r EXCEPT !.emitted = @ + 1, !.got = r.current]
    ELSE r

(* S3ListObjectsRequest::onSetXmlValue (IsTruncated and LastModified, which *)
(* the listings of this part do not hold, left out).                        *)
onSetXmlValue(r, value) ==
    IF Len(r.stack) < 2 THEN r
    ELSE CASE top(r) = "Key" -> [r EXCEPT !.current.key = @ \o value]
           [] top(r) = "ETag" ->
                  IF value # <<"\"">> THEN [r EXCEPT !.current.etag = @ \o value] ELSE r
           [] top(r) = "Size" -> [r EXCEPT !.current.size = atoll(value)]
           [] top(r) = "Prefix" ->
                  IF r.stack[Len(r.stack) - 1] = "CommonPrefixes"
                  THEN [r EXCEPT !.current.key =
                                    (IF r.isWalrus THEN @ \o r.m_prefix ELSE @) \o value,
                                 !.current.isDir = TRUE]
                  ELSE IF r.isWalrus THEN [r EXCEPT !.m_prefix = value] ELSE r
           [] top(r) = "NextMarker" -> [r EXCEPT !.m_nextMarker = value]
           [] OTHER -> r

(* S3ListObjectsRequest::nextMarker. *)
nextMarker(r) ==
    IF r.m_nextMarker = << >> THEN r.current.key ELSE r.m_nextMarker

(* The three SAX handlers of S3Request with the hooks of the listing. *)
listStartElement(r, localName) ==
    LET r1 == startXmlElementImpl(r, localName) IN
    IF r1.error # NULL THEN r1 ELSE onStartXmlElement(r1)

listSetValue(r, value) == onSetXmlValue(setXmlValueImpl(r, value), value)

listEndElement(r) ==
    IF Len(r.stack) = 0 THEN xmlParserError(r)
    ELSE endXmlElementImpl(onEndXmlElement(r))

(* The listing the server sends, as the events of its elements.  S3:       *)
(*   ListBucketResult( Prefix, NextMarker?, ( Contents( Key, ETag, Size )  *)
(*                     | CommonPrefixes( Prefix ) )* )                      *)
(* Walrus: the same inside one more element, a CommonPrefixes holding one  *)
(* or two Prefix.  The text of ETag is the etag between two quotes, each   *)
(* quote (an entity) passed as a fragment of its own.                       *)
resultDepth(r) == IF r.isWalrus THEN 2 ELSE 1

KeyFrags == {<<"a">>, <<"/">>}
SizeFrags == {<<"0">>, <<"7">>}
Quote == <<"\"">>

pathTop(r) == r.path[Len(r.path)]

(* The open element is one that holds text. *)
isLeaf(r) ==
    \/ Len(r.path) = resultDepth(r) + 1 /\ pathTop(r) \in {"Prefix", "NextMarker"}
    \/ Len(r.path) = resultDepth(r) + 2

(* The open element stands for an entry of the listing. *)
isEntry(r) ==
    \/ Len(r.path) = resultDepth(r) + 1 /\ pathTop(r) = "Contents"
    \/ ~r.isWalrus /\ Len(r.path) = resultDepth(r) + 1 /\ pathTop(r) = "CommonPrefixes"
    \/ r.isWalrus /\ Len(r.path) = resultDepth(r) + 2 /\ pathTop(r) = "Prefix"

mayStart(r, name) ==
    LET d == Len(r.path) IN
    IF d < resultDepth(r)
    THEN name = (IF d = resultDepth(r) - 1 THEN "ListBucketResult"
                 ELSE "ListBucketResponse")
    ELSE IF d = resultDepth(r)
    THEN CASE name = "Prefix" -> r.docPrefix = Absent
           [] name = "NextMarker" ->
                  r.docPrefix # Absent /\ r.docNextMarker = Absent /\ r.entries = 0
           [] name \in {"Contents", "CommonPrefixes"} ->
                  r.docPrefix # Absent /\ r.entries < MaxEntries
           [] OTHER -> FALSE
    ELSE IF d = resultDepth(r) + 1 /\ pathTop(r) = "Contents"
    THEN r.step < 3 /\ name = <<"Key", "ETag", "Size">>[r.step + 1]
    ELSE IF d = resultDepth(r) + 1 /\ pathTop(r) = "CommonPrefixes"
    THEN /\ name = "Prefix"
         /\ r.step < (IF r.isWalrus THEN 2 ELSE 1)
         /\ r.entries < MaxEntries
    ELSE FALSE

listStart(name) ==
    /\ xfer.pc = "list" /\ xfer.error = NULL /\ ~xfer.docDone
    /\ mayStart(xfer, name)
    /\ LET r == [listStartElement(xfer, name) EXCEPT
                    !.path = Append(@, name), !.nfr = 0, !.text = << >>,
                    !.step = IF name \in {"Contents", "CommonPrefixes"} THEN 0 ELSE @]
       IN xfer' = IF isEntry(r)
                  THEN [r EXCEPT !.want = [S3Object_clear EXCEPT
                                              !.isDir = name # "Contents"],
                                 !.got = S3Object_clear]
                  ELSE r
    /\ UNCHANGED <<connVars, lastCall, wait, fair>>

listChars(value) ==
    /\ xfer.pc = "list" /\ xfer.error = NULL /\ ~xfer.docDone
    /\ isLeaf(xfer)
    /\ CASE pathTop(xfer) = "ETag" ->
                xfer.nfr < 3 /\ value = (IF xfer.nfr = 1 THEN <<"e">> ELSE Quote)
         [] pathTop(xfer) = "Size" -> xfer.nfr = 0 /\ value \in SizeFrags
         [] OTHER -> xfer.nfr < MaxFrags /\ value \in KeyFrags
    /\ xfer' = [listSetValue(xfer, value) EXCEPT
                  !.nfr = @ + 1, !.text = @ \o value]
    /\ UNCHANGED <<connVars, lastCall, wait, fair>>

(* The element may be closed: it holds what the listing's grammar asks. *)
mayEnd(r) ==
    /\ Len(r.path) > 0
    /\ isLeaf(r) =>
          CASE pathTop(r) = "ETag" -> r.nfr = 3
            [] Len(r.path) = resultDepth(r) + 1 /\ pathTop(r) = "Prefix" -> TRUE
            [] OTHER -> r.nfr >= 1
    /\ Len(r.path) = resultDepth(r) + 1 =>
          CASE pathTop(r) = "Contents" -> r.step = 3
            [] pathTop(r) = "CommonPrefixes" -> r.step >= 1
            [] OTHER -> TRUE

(* The text of an ETag element without the quotes around it. *)
stripQuotes(t) ==
    IF Len(t) >= 2 /\ t[1] = "\"" /\ t[Len(t)] = "\"" THEN SubSeq(t, 2, Len(t) - 1) ELSE t

(* What the element being closed adds to the entry it belongs to. *)
wanted(r) ==
    LET name == pathTop(r) IN
    IF ~isLeaf(r) \/ Len(r.path) = resultDepth(r) + 1 THEN r.want
    ELSE CASE name = "Key" -> [r.want EXCEPT !.key = r.text]
           [] name = "ETag" -> [r.want EXCEPT !.etag = stripQuotes(r.text)]
           [] name = "Size" -> [r.want EXCEPT !.size = atoll(r.text)]
           [] name = "Prefix" ->
                  [r.want EXCEPT
                     !.key = (IF r.isWalrus THEN r.docPrefix ELSE << >>) \o r.text]

listEnd ==
    /\ xfer.pc = "list" /\ xfer.error = NULL /\ ~xfer.docDone
    /\ mayEnd(xfer)
    /\ LET r == listEndElement(xfer)
           d == Len(xfer.path)
           name == pathTop(xfer)
           atResult == d = resultDepth(xfer) + 1
           w == wanted(xfer)
       IN xfer' = [r EXCEPT
             !.path = SubSeq(@, 1, Len(@) - 1),
             !.nfr = 0, !.text = << >>,
             !.step = IF d = resultDepth(xfer) + 2 THEN @ + 1 ELSE @,
             !.docPrefix = IF atResult /\ name = "Prefix" THEN xfer.text ELSE @,
             !.docNextMarker = IF atResult /\ name = "NextMarker" THEN xfer.text ELSE @,
             !.want = w,
             !.entries = IF isEntry(xfer) THEN @ + 1 ELSE @,
             !.matched = IF isEntry(xfer)
                         THEN @ /\ r.emitted = xfer.emitted + 1 /\ r.got = w
                         ELSE @ /\ r.emitted = xfer.emitted,
             !.docDone = d = 1]
    /\ UNCHANGED <<connVars, lastCall, wait, fair>>

InitList ==
    /\ InitConn
    /\ fair = NoFair
    /\ \E w \in BOOLEAN :
          xfer = [pc |-> "list", isWalrus |-> w, stack |-> << >>, error |-> NULL,
                  current |-> S3Object_clear, m_prefix |-> << >>,
                  m_nextMarker |-> << >>, emitted |-> 0, got |-> S3Object_clear,
                  path |-> << >>, nfr |-> 0, text |-> << >>, step |-> 0,
                  entries |-> 0, docPrefix |-> Absent, docNextMarker |-> Absent,
                  want |-> S3Object_clear, matched |-> TRUE, docDone |-> FALSE]

ListNames == {"ListBucketResponse", "ListBucketResult", "Prefix", "NextMarker",
              "Contents", "CommonPrefixes", "Key", "ETag", "Size"}

NextList ==
    \/ \E name \in ListNames : listStart(name)
    \/ \E value \in KeyFrags \cup SizeFrags \cup {Quote, <<"e">>} : listChars(value)
    \/ listEnd

SpecList == InitList /\ [][NextList]_vars

(* C26: against S3 the enumerator is passed, in the order of the document, *)
(* one Object for each Contents element (key, etag and size those of its   *)
(* children, isDir false) and one directory entry for each CommonPrefixes  *)
(* element (key the text of its Prefix, isDir true, size -1), and nothing  *)
(* for any other element, the request-level Prefix included: every call so *)
(* far was made at the end of such an element with the entry it stands     *)
(* for, and no such element ended without its call.                        *)
C26_S3Entries ==
    (xfer.pc = "list" /\ ~xfer.isWalrus) =>
        /\ xfer.matched
        /\ xfer.emitted = xfer.entries

(* Against S3 an object and a directory whose texts came in two fragments  *)
(* were passed to the enumerator.                                           *)
C26_Witness ==
    /\ xfer.pc = "list" /\ ~xfer.isWalrus /\ xfer.docDone
    /\ xfer.docPrefix = <<"a">>
    /\ xfer.emitted = 2
    /\ xfer.got = [key |-> <<"a", "/">>, etag |-> << >>, size |-> -1, isDir |-> TRUE]

C26_WitnessObject ==
    /\ xfer.pc = "list" /\ ~xfer.isWalrus
    /\ xfer.emitted = 1
    /\ xfer.got = [key |-> <<"a", "/">>, etag |-> <<"e">>, size |-> 7, isDir |-> FALSE]

(* C27: against Walrus every Prefix under CommonPrefixes (one level deeper *)
(* than on S3) is passed to the enumerator as a directory whose key is the *)
(* request-level prefix followed by the text of the element, the prefix    *)
(* once, in however many fragments the parser passed the text.             *)
C27_WalrusPrefixOnce ==
    (xfer.pc = "list" /\ xfer.isWalrus /\ xfer.got.isDir) =>
        /\ xfer.got.key = xfer.want.key
        /\ xfer.emitted = xfer.entries

(* The text a/ of a Prefix under the request-level prefix a, passed in two *)
(* fragments, was emitted with the prefix before each fragment.            *)
C27_PrefixPerFragment ==
    /\ xfer.pc = "list" /\ xfer.isWalrus
    /\ xfer.docPrefix = <<"a">>
    /\ xfer.want.key = <<"a", "a", "/">>
    /\ xfer.got.isDir
    /\ xfer.got.key = <<"a", "a", "a", "/">>

(* A text passed in one fragment is emitted under the prefix once. *)
C27_OneFragment ==
    (xfer.pc = "list" /\ xfer.isWalrus /\ xfer.got.isDir
        /\ Len(xfer.want.key) = Len(xfer.docPrefix) + 1
        /\ Len(xfer.docPrefix) <= 1) =>
        xfer.got.key = xfer.want.key

(* The marker after the listing, as listObjects copies it to the response. *)
lastKeyEmitted(r) == r.got.key

(* C28: the marker listObjects returns is, against S3, the text of the     *)
(* NextMarker element if the listing has one and the key of the last entry *)
(* passed to the enumerator if it has none; against Walrus it is the key   *)
(* of the last entry passed, whether the listing has a NextMarker or not.  *)
C28_Marker ==
    (xfer.pc = "list" /\ xfer.docDone) =>
        nextMarker(xfer) =
            (IF ~xfer.isWalrus /\ xfer.docNextMarker # Absent
             THEN xfer.docNextMarker
             ELSE lastKeyEmitted(xfer))

(* Against S3 the NextMarker a/ passed in two fragments gave the marker /. *)
C28_MarkerLastFragment ==
    /\ xfer.pc = "list" /\ xfer.docDone /\ ~xfer.isWalrus
    /\ xfer.docNextMarker = <<"a", "/">>
    /\ nextMarker(xfer) = <<"/">>

(* Against Walrus a listing with a NextMarker gave it as the marker, not   *)
(* the key of the last entry.                                               *)
C28_WalrusNextMarker ==
    /\ xfer.pc = "list" /\ xfer.docDone /\ xfer.isWalrus
    /\ xfer.docNextMarker = <<"a">>
    /\ xfer.emitted = 1 /\ lastKeyEmitted(xfer) = <<"/">>
    /\ nextMarker(xfer) = <<"a">>

(* Without a NextMarker the marker is the key of the last entry passed;    *)
(* with one passed in one fragment against S3 it is its text.              *)
C28_MarkerOtherwise ==
    (xfer.pc = "list" /\ xfer.docDone) =>
        /\ xfer.docNextMarker = Absent => nextMarker(xfer) = lastKeyEmitted(xfer)
        /\ (~xfer.isWalrus /\ xfer.docNextMarker # Absent
               /\ Len(xfer.docNextMarker) = 1) =>
              nextMarker(xfer) = xfer.docNextMarker

----------------------------------------------------------------------------
(* Part IX.  listAllObjects: the loop over the pages of a listing.  The    *)
(* server holds the set K of entries under the prefix (keys, or with a     *)
(* delimiter the rolled-up names), each a string, and answers a request    *)
(* with the entries that sort after the marker, at most max-keys of them,  *)
(* IsTruncated when more remain and, as S3 does when a delimiter is given  *)
(* and the page is truncated, NextMarker naming the last entry of the      *)
(* page.  Under SpecPage xfer is a record with pc "paging" or "done":      *)
(*   K, delimiter, maxKeysInBatch, isWalrus   the server's entries and the *)
(*                         arguments and configuration of the call         *)
(*   listing               the entries of K in sorted order                *)
(*   response              S3ListObjectsResponse of listAllObjects         *)
(*   objects               the entries passed to the enumerator, in order  *)
(*   calls                 the calls of listObjects so far                  *)
(* and pc is "idle" before the call of listAllObjects.                      *)

MaxPages == 9            \* calls of listObjects in one listAllObjects (more than the entries)

(* The order of the characters: space, ampersand, letters. *)
charRank(c) == CASE c = " " -> 0 [] c = "&" -> 1 [] c = "a" -> 2 [] c = "b" -> 3

(* s sorts strictly before t. *)
RECURSIVE lexLess(_, _)
lexLess(s, t) ==
    IF t = << >> THEN FALSE
    ELSE IF s = << >> THEN TRUE
    ELSE IF s[1] # t[1] THEN charRank(s[1]) < charRank(t[1])
    ELSE lexLess(Tail(s), Tail(t))

(* The last of the fragments in which the parser passes a text: a          *)
(* character that is written as an entity reference is a fragment of its   *)
(* own, the text after it the next.                                         *)
RECURSIVE lastFragment(_)
lastFragment(t) ==
    IF t = << >> THEN << >>
    ELSE IF t[Len(t)] = "&" THEN <<"&">>
    ELSE IF Len(t) = 1 \/ t[Len(t) - 1] = "&" THEN <<t[Len(t)]>>
    ELSE lastFragment(SubSeq(t, 1, Len(t) - 1)) \o <<t[Len(t)]>>

(* The entries of the set T in sorted order. *)
sorted(T) ==
    [i \in 1 .. Cardinality(T) |->
        CHOOSE e \in T : Cardinality({f \in T : lexLess(f, e)}) = i - 1]

(* The entries of the sorted sequence after the marker, at most n (0: all). *)
sortedAfter(listing, marker, n) ==
    LET from == Cardinality({i \in 1 .. Len(listing) : ~lexLess(marker, listing[i])}) + 1
        to == IF n = 0 \/ from + n - 1 > Len(listing) THEN Len(listing) ELSE from + n - 1
    IN SubSeq(listing, from, to)

(* The server's answer to one request. *)
serverPage(r, marker) ==
    LET page == sortedAfter(r.listing, marker, r.maxKeysInBatch)
        more == page # << >> /\ page[Len(page)] # r.listing[Len(r.listing)]
    IN [entries |-> page, IsTruncated |-> more,
        NextMarker |-> IF more /\ r.delimiter /\ ~r.isWalrus
                       THEN page[Len(page)] ELSE Absent]

(* S3Connection::listObjects: the marker sent (the workaround for Walrus), *)
(* the page parsed by S3ListObjectsRequest (m_current is the last entry,   *)
(* m_nextMarker what assign left of NextMarker), and the response filled.  *)
listObjects(r, marker) ==
    LET sent == IF r.isWalrus /\ marker = << >> THEN <<" ">> ELSE marker
        page == serverPage(r, sent)
        request == [m_nextMarker |-> IF page.NextMarker = Absent THEN << >>
                                     ELSE lastFragment(page.NextMarker),
                    current |-> [key |-> IF page.entries = << >> THEN << >>
                                         ELSE page.entries[Len(page.entries)]]]
    IN [r EXCEPT !.objects = @ \o page.entries,
                 !.response = [nextMarker |-> nextMarker(request),
                               isTruncated |-> page.IsTruncated],
                 !.calls = @ + 1]

(* One turn of the do-while of listAllObjects. *)
listAllObjectsStep ==
    /\ xfer.pc = "paging"
    /\ xfer.calls < MaxPages
    /\ LET r == listObjects(xfer, xfer.response.nextMarker) IN
       xfer' = [r EXCEPT !.pc = IF r.response.isTruncated THEN "paging" ELSE "done"]
    /\ UNCHANGED <<connVars, lastCall, wait, fair>>

EntrySet == {<<" ">>, <<"a">>, <<"a", "&", "b">>, <<"a", "b">>, <<"b">>,
             <<"b", "&", "a">>, <<"b", "b">>}

(* listAllObjects is called: S3ListObjectsResponse response. *)
listAllObjects(K, d, n, w) ==
    /\ xfer.pc = "idle"
    /\ xfer' = [pc |-> "paging", K |-> K, listing |-> sorted(K), delimiter |-> d, maxKeysInBatch |-> n,
                isWalrus |-> w,
                response |-> [nextMarker |-> << >>, isTruncated |-> FALSE],
                objects |-> << >>, calls |-> 0]
    /\ UNCHANGED <<connVars, lastCall, wait, fair>>

InitPage ==
    /\ InitConn
    /\ fair = NoFair
    /\ xfer = [pc |-> "idle", K |-> {}, objects |-> << >>, calls |-> 0]

NextPage ==
    \/ \E K \in SUBSET EntrySet, d \in BOOLEAN, n \in 0 .. 2, w \in BOOLEAN :
           listAllObjects(K, d, n, w)
    \/ listAllObjectsStep

(* The loop runs on once listAllObjects is called. *)
SpecPage == InitPage /\ [][NextPage]_vars /\ WF_vars(listAllObjectsStep)

(* No entry was passed to the enumerator twice. *)
noDuplicates(r) ==
    \A i, j \in 1 .. Len(r.objects) : r.objects[i] = r.objects[j] => i = j

(* C29: against such a server listAllObjects terminates, having passed to  *)
(* the enumerator every entry of K once and nothing else, whatever the     *)
(* batch size, with or without a delimiter; so with a delimiter the result *)
(* for a batch size of 1 is the result for an unbounded batch.             *)
C29_ListAllExact ==
    /\ (xfer.pc = "paging") ~> (xfer.pc = "done")
    /\ [](noDuplicates(xfer))
    /\ [](xfer.pc = "done" => {xfer.objects[i] : i \in 1 .. Len(xfer.objects)} = xfer.K)

(* Against S3 with a delimiter and a batch size of 1, an entry with an     *)
(* ampersand was passed to the enumerator a second time.                   *)
C29_Repeated ==
    /\ xfer.pc = "paging"
    /\ ~xfer.isWalrus /\ xfer.delimiter /\ xfer.maxKeysInBatch = 1
    /\ xfer.K = {<<"b", "&", "a">>, <<"b", "b">>}
    /\ xfer.objects = <<<<"b", "&", "a">>, <<"b", "&", "a">>>>

(* Against S3 without a delimiter the listing is exact. *)
C29_ExactWithoutNextMarker ==
    (xfer.pc # "idle" /\ ~xfer.isWalrus /\ ~xfer.delimiter) =>
        /\ noDuplicates(xfer)
        /\ xfer.calls <= Cardinality(xfer.K) + 1
        /\ xfer.pc = "done" =>
              {xfer.objects[i] : i \in 1 .. Len(xfer.objects)} = xfer.K

----------------------------------------------------------------------------
(* Part X.  The signature of a request.  A string is the sequence of its   *)
(* pieces (a piece stands for the text of an argument or is a literal); an *)
(* optional C string is a record: set is FALSE for a null pointer.  HMAC   *)
(* and base64 are OpenSSL's: the signature is kept as the text before the  *)
(* encoded hash and the key and message the hash is computed from.  Under  *)
(* SpecSig xfer is a record with pc "idle" or "signed" holding the         *)
(* arguments of calcSignature and its result.                               *)

Null == [set |-> FALSE, s |-> << >>]
Str(s) == [set |-> TRUE, s |-> s]

s_aclHeaderKey == <<"x-amz-acl">>
s_aclHeaderValue == <<"public-read">>
s_encryptHeaderKey == <<"x-amz-server-side-encryption">>
s_encryptHeaderValue == <<"AES256">>

(* Variant of appendSigHeader that leaves out the line of a null value. *)
appendSigHeader_skipNull(key, value, toSign) ==
    IF ~value.set THEN toSign
    ELSE toSign \o (IF key.set THEN key.s \o <<":">> ELSE << >>) \o value.s \o <<"\n">>

(* appendSigHeader( key, value, ptoSign ). *)
appendSigHeader(key, value, toSign) ==
    toSign \o (IF key.set THEN key.s \o <<":">> ELSE << >>)
           \o (IF value.set THEN value.s ELSE << >>) \o <<"\n">>

(* calcSignature: the string to sign and *signature (empty at the call). *)
calcSignature(a) ==
    LET t0 == a.action \o <<"\n">>
        t1 == appendSigHeader(Null, a.contentMd5, t0)
        t2 == appendSigHeader(Null, a.contentType, t1)
        t3 == appendSigHeader(Null, Str(a.date), t2)
        t4 == IF a.makePublic
              THEN appendSigHeader(Str(s_aclHeaderKey), Str(s_aclHeaderValue), t3)
              ELSE t3
        t5 == IF a.srvEncrypt
              THEN appendSigHeader(Str(s_encryptHeaderKey), Str(s_encryptHeaderValue), t4)
              ELSE t4
        t6 == IF a.isWalrus THEN t5 \o <<"/services/Walrus">> ELSE t5
        t7 == IF a.bucketName.set THEN t6 \o <<"/">> \o a.bucketName.s ELSE t6
        toSign == IF a.key.set THEN t7 \o <<"/">> \o a.key.s ELSE t7
    IN [toSign |-> toSign,
        signature |-> [text |-> <<" AWS ">> \o a.accKey \o <<":">>,
                       append64Encoded |-> [HMAC_sha1 |-> [key |-> a.secKey,
                                                         data |-> toSign]]]]

sign(a) ==
    /\ xfer.pc = "idle"
    /\ xfer' = [pc |-> "signed", args |-> a, result |-> calcSignature(a)]
    /\ UNCHANGED <<connVars, lastCall, wait, fair>>

signReturn ==
    /\ xfer.pc = "signed"
    /\ xfer' = [pc |-> "idle"]
    /\ UNCHANGED <<connVars, lastCall, wait, fair>>

OptStrings(S) == {Null} \cup {Str(s) : s \in S}

SigArgs ==
    [action : {<<"GET">>, <<"PUT">>, <<"DELETE">>},
     contentMd5 : OptStrings({<<"<md5>">>}),
     contentType : OptStrings({<<"<type>">>}),
     date : {<<"<date>">>},
     makePublic : BOOLEAN, srvEncrypt : BOOLEAN, isWalrus : BOOLEAN,
     bucketName : OptStrings({<< >>, <<"<bucket>">>}),
     key : OptStrings({<< >>, <<"<key>">>}),
     accKey : {<<"<access key>">>}, secKey : {<<"<secret key>">>}]

InitSig ==
    /\ InitConn
    /\ fair = NoFair
    /\ xfer = [pc |-> "idle"]

NextSig ==
    \/ \E a \in SigArgs : sign(a)
    \/ signReturn

SpecSig == InitSig /\ [][NextSig]_vars

(* One line of the string to sign: the text, empty if absent, and a        *)
(* newline.                                                                 *)
line(opt) == (IF opt.set THEN opt.s ELSE << >>) \o <<"\n">>

(* C30: the string to sign is the verb, Content-MD5 (empty if absent),     *)
(* Content-Type (empty if absent) and Date, each followed by one newline,  *)
(* then x-amz-acl:public-read and a newline only if makePublic, then       *)
(* x-amz-server-side-encryption:AES256 and a newline only if srvEncrypt,   *)
(* then with no newline after it the resource: /services/Walrus if         *)
(* isWalrus, / and the bucket if a bucket is given, / and the key if a key *)
(* is given.  The Authorization value is " AWS ", the access key, ":" and  *)
(* the base64 of the HMAC-SHA1 of the string to sign under the secret key. *)
C30_StringToSign ==
    xfer.pc = "signed" =>
        LET a == xfer.args
            expected ==
                a.action \o <<"\n">> \o line(a.contentMd5) \o line(a.contentType)
                \o a.date \o <<"\n">>
                \o (IF a.makePublic THEN <<"x-amz-acl", ":", "public-read", "\n">>
                    ELSE << >>)
                \o (IF a.srvEncrypt
                    THEN <<"x-amz-server-side-encryption", ":", "AES256", "\n">>
                    ELSE << >>)
                \o (IF a.isWalrus THEN <<"/services/Walrus">> ELSE << >>)
                \o (IF a.bucketName.set THEN <<"/">> \o a.bucketName.s ELSE << >>)
                \o (IF a.key.set THEN <<"/">> \o a.key.s ELSE << >>)
        IN /\ xfer.result.toSign = expected
           /\ xfer.result.signature.text = <<" AWS ", "<access key>", ":">>
           /\ xfer.result.signature.append64Encoded.HMAC_sha1 =
                 [key |-> a.secKey, data |-> expected]

(* A public, encrypted PUT to Walrus with no Content-MD5 was signed. *)
C30_Witness ==
    /\ xfer.pc = "signed"
    /\ xfer.result.toSign =
          <<"PUT", "\n", "\n", "<type>", "\n", "<date>", "\n",
            "x-amz-acl", ":", "public-read", "\n",
            "x-amz-server-side-encryption", ":", "AES256", "\n",
            "/services/Walrus", "/", "<bucket>", "/", "<key>">>

(***************************************************************************)
(* Part XI.  The Range header of a GET.  size_t values are kept modulo     *)
(* SizeMod; the header text "bytes=<low>-<last>" is kept as the two        *)
(* numbers that are printed into it.                                        *)
(***************************************************************************)

size_t(n) == (n + SizeMod) % SizeMod

(* setRequestHeaders: the Range header is appended when low <= high, and    *)
(* its second number is high - 1 in size_t.                                 *)
setRequestHeaders_Range(low, high) ==
    IF low <= high
    THEN << [name |-> "Range", low |-> low, last |-> size_t(high - 1)] >>
    ELSE << >>

(* The range a GET without a byte range passes to init: the default         *)
(* arguments of init, which select no Range header.                         *)
init_defaultRange == [low |-> 1, high |-> 0]

(* S3Connection::pendGet: offset is a size_t, so "offset >= 0" holds for    *)
(* every call and the range [offset, offset + size) is always passed on.    *)
pendGet_range(size, offset) ==
    IF offset >= 0
    THEN [low |-> offset, high |-> size_t(offset + size)]
    ELSE init_defaultRange

(* S3Connection::get: init with the default range. *)
get_range == init_defaultRange

rangePendGet(size, offset) ==
    /\ xfer.pc = "idle"
    /\ LET r == pendGet_range(size, offset)
       IN xfer' = [pc |-> "sent", op |-> "pendGet", size |-> size,
                   offset |-> offset,
                   headers |-> setRequestHeaders_Range(r.low, r.high)]
    /\ UNCHANGED <<connVars, lastCall, wait, fair>>

(* s3multiget: connection i of the process whose share starts at base asks  *)
(* for unitSize bytes at unitSize * i + base.                               *)
multiget(unitSize, i, base) ==
    /\ xfer.pc = "idle"
    /\ LET offset == size_t(unitSize * i + base)
           r == pendGet_range(unitSize, offset)
       IN xfer' = [pc |-> "sent", op |-> "multiget", size |-> unitSize,
                   offset |-> offset, i |-> i, base |-> base,
                   headers |-> setRequestHeaders_Range(r.low, r.high)]
    /\ UNCHANGED <<connVars, lastCall, wait, fair>>

rangeGet ==
    /\ xfer.pc = "idle"
    /\ xfer' = [pc |-> "sent", op |-> "get", size |-> 0, offset |-> 0,
                headers |-> setRequestHeaders_Range(get_range.low,
                                                    get_range.high)]
    /\ UNCHANGED <<connVars, lastCall, wait, fair>>

rangeReturn ==
    /\ xfer.pc = "sent"
    /\ xfer' = [pc |-> "idle"]
    /\ UNCHANGED <<connVars, lastCall, wait, fair>>

InitRange ==
    /\ InitConn
    /\ fair = NoFair
    /\ xfer = [pc |-> "idle"]

NextRange ==
    \/ \E size, offset \in 0 .. SizeMod - 1 : rangePendGet(size, offset)
    \/ \E unitSize, base \in 0 .. SizeMod - 1, i \in 0 .. NCon - 1 :
          multiget(unitSize, i, base)
    \/ rangeGet
    \/ rangeReturn

SpecRange == InitRange /\ [][NextRange]_vars

(* C31: a GET of the byte range [offset, offset + size) carries exactly one *)
(* header "Range: bytes=offset-(offset+size-1)" whose numbers are computed  *)
(* without wrap-around in size_t, and a GET without a byte range carries    *)
(* no Range header.                                                         *)
C31_RangeHeader ==
    xfer.pc = "sent" =>
        IF xfer.op \in {"pendGet", "multiget"}
        THEN xfer.headers =
                << [name |-> "Range", low |-> xfer.offset,
                    last |-> xfer.offset + xfer.size - 1] >>
        ELSE xfer.headers = << >>

(* pendGet of no bytes at offset 0 was sent. *)
C31_WitnessEmptyRange ==
    /\ xfer.pc = "sent" /\ xfer.op = "pendGet"
    /\ xfer.size = 0 /\ xfer.offset = 0

(***************************************************************************)
(* Part XII.  The pipeline of s3get: one pass of main's loops for a        *)
(* connection count and a number of keys, over the connections of Part I.  *)
(* xfer holds main's locals: pc, connectionCount, totalKey, i, k, and as    *)
(* history requested (pendGet calls per key), pends, completions and       *)
(* failed: the call whose assertion on the connection's state did not hold, *)
(* or "exception" when an exception left main.                              *)
(***************************************************************************)

MaxKeys == 5             \* keys of the range given to s3get

Keys == 0 .. (MaxKeys - 1)

s3getStop(why) ==
    /\ xfer' = [xfer EXCEPT !.pc = "stopped", !.failed = why]
    /\ UNCHANGED <<connVars, lastCall, wait>>

(* cons[ c ]->pendGet( ..., getKey( keylow + key, objectMB ), ... ) *)
s3getPendGet(c, key, fail, next) ==
    IF asyncRequest[c] # NULL
    THEN s3getStop("pendGet")
    ELSE /\ pendConn(c, "get", "pendGet", fail)
         /\ xfer' = IF fail = "none"
                    THEN [xfer EXCEPT !.requested[key] = @ + 1, !.pends = @ + 1,
                                      !.i = @ + 1, !.pc = next]
                    ELSE [xfer EXCEPT !.pc = "stopped", !.failed = "exception"]

(* cons[ c ]->completeGet() *)
s3getCompleteGet(c, raised, inTry, next) ==
    IF asyncRequest[c] # "get"
    THEN s3getStop("completeGet")
    ELSE /\ completeConn(c, "completeGet", raised)
         /\ xfer' = IF raised /\ ~inTry
                    THEN [xfer EXCEPT !.completions = @ + 1, !.pc = "stopped",
                                      !.failed = "exception"]
                    ELSE [xfer EXCEPT !.completions = @ + 1, !.k = c,
                                      !.i = IF next = "final" THEN @ + 1 ELSE @,
                                      !.pc = next]

s3getStart(connectionCount, totalKey) ==
    /\ xfer.pc = "idle"
    /\ xfer' = [pc |-> "first", connectionCount |-> connectionCount,
                totalKey |-> totalKey, i |-> 0, k |-> 0,
                requested |-> [key \in Keys |-> 0], pends |-> 0,
                completions |-> 0, failed |-> "none"]
    /\ UNCHANGED <<connVars, lastCall, wait, fair>>

(* for ( int i = 0; i < connectionCount && i < totalKey; ++i ) pendGet *)
s3getFirst(fail) ==
    /\ xfer.pc = "first"
    /\ IF xfer.i < xfer.connectionCount /\ xfer.i < xfer.totalKey
       THEN s3getPendGet(xfer.i, xfer.i, fail, "first")
       ELSE /\ fail = "none"
            /\ xfer' = [xfer EXCEPT !.pc = "loop", !.i = xfer.connectionCount]
            /\ UNCHANGED <<connVars, lastCall, wait>>
    /\ UNCHANGED fair

(* int k = S3Connection::waitAny( cons, connectionCount, i % connectionCount ) *)
s3getWaitAny ==
    /\ xfer.pc = "loop" /\ xfer.i < xfer.totalKey
    /\ Ready /\ lastCall.op # "waitAny"
    /\ IF tooMany(xfer.connectionCount)
          \/ \A c \in 0 .. (xfer.connectionCount - 1) : isAsyncPending(c)
       THEN /\ waitAnyCall(xfer.connectionCount, xfer.i % xfer.connectionCount)
       ELSE s3getStop("waitAny")
    /\ UNCHANGED fair

(* The event wait of waitAny returns for a completed connection. *)
s3getWaitAnyEnd(res) ==
    /\ xfer.pc = "loop"
    /\ res >= 0
    /\ waitAnyEnd(res)

(* try { cons[ k ]->completeGet(); } catch ( ... ) { } *)
s3getLoopComplete(raised) ==
    /\ xfer.pc = "loop" /\ xfer.i < xfer.totalKey
    /\ Ready /\ lastCall.op = "waitAny"
    /\ IF lastCall.raised
       THEN /\ ~raised
            /\ s3getStop("exception")
       ELSE s3getCompleteGet(lastCall.ret, raised, TRUE, "repend")
    /\ UNCHANGED fair

(* cons[ k ]->pendGet( ..., getKey( keylow + i, objectMB ), buf[ k ], ... ) *)
s3getRepend(fail) ==
    /\ xfer.pc = "repend"
    /\ s3getPendGet(xfer.k, xfer.i, fail, "loop")
    /\ UNCHANGED fair

s3getLoopEnd ==
    /\ xfer.pc = "loop" /\ xfer.i >= xfer.totalKey
    /\ xfer' = [xfer EXCEPT !.pc = "final", !.i = 0]
    /\ UNCHANGED <<connVars, lastCall, wait, fair>>

(* for ( int i = 0; i < connectionCount; ++i ) cons[ i ]->completeGet(); *)
s3getFinal(raised) ==
    /\ xfer.pc = "final"
    /\ IF xfer.i < xfer.connectionCount
       THEN s3getCompleteGet(xfer.i, raised, FALSE, "final")
       ELSE /\ ~raised
            /\ xfer' = [xfer EXCEPT !.pc = "done"]
            /\ UNCHANGED <<connVars, lastCall, wait>>
    /\ UNCHANGED fair

s3getTransport(c) ==
    /\ xfer.pc \in {"first", "loop", "repend", "final"}
    /\ transportFinish(c)

InitGet ==
    /\ InitConn
    /\ fair = NoFair
    /\ xfer = [pc |-> "idle"]

NextGet ==
    \/ \E connectionCount \in 1 .. NCon, totalKey \in 0 .. MaxKeys :
          s3getStart(connectionCount, totalKey)
    \/ \E fail \in PendFail : s3getFirst(fail)
    \/ s3getWaitAny
    \/ \E res \in 0 .. (NCon - 1) : s3getWaitAnyEnd(res)
    \/ \E raised \in BOOLEAN : s3getLoopComplete(raised)
    \/ \E fail \in PendFail : s3getRepend(fail)
    \/ s3getLoopEnd
    \/ \E raised \in BOOLEAN : s3getFinal(raised)
    \/ \E c \in Cons : s3getTransport(c)

SpecGet == InitGet /\ [][NextGet]_vars

(* C32: in the pipeline of s3get, for every connection count and every key *)
(* range, pendGet is called only on a connection with nothing pending,      *)
(* waitAny only when all the connections passed are pending, completeGet    *)
(* only on a connection with a pending GET; every key of the range is       *)
(* requested exactly once and every pended request has been completed       *)
(* exactly once when the loops are over and the connections are deleted.    *)
C32_PipelineProtocol ==
    xfer.pc # "idle" =>
        /\ xfer.failed \notin {"pendGet", "waitAny", "completeGet"}
        /\ xfer.pc = "done" =>
              /\ \A key \in Keys :
                    xfer.requested[key] = IF key < xfer.totalKey THEN 1 ELSE 0
              /\ xfer.completions = xfer.pends
              /\ \A c \in Cons : asyncRequest[c] = NULL

(* Fewer keys than connections: the closing loop reached a connection on    *)
(* which nothing was pended.                                                *)
C32_WitnessFewKeys ==
    /\ xfer.pc = "stopped" /\ xfer.failed = "completeGet"
    /\ xfer.totalKey < xfer.connectionCount
    /\ xfer.i = xfer.totalKey

(***************************************************************************)
(* Part XIII.  The table of response node names and its lookup.  A C       *)
(* string is the sequence of its characters; strcmp compares the bytes,    *)
(* with the terminating 0 after the last one.                               *)
(***************************************************************************)

ascii ==
    ("_" :> 95) @@
    [A |-> 65, B |-> 66, C |-> 67, D |-> 68, E |-> 69, F |-> 70,
     G |-> 71, H |-> 72, I |-> 73, J |-> 74, K |-> 75, L |-> 76,
     M |-> 77, N |-> 78, O |-> 79, P |-> 80, Q |-> 81, R |-> 82,
     S |-> 83, T |-> 84, U |-> 85, V |-> 86, W |-> 87, X |-> 88,
     Y |-> 89, Z |-> 90, a |-> 97, b |-> 98, c |-> 99, d |-> 100,
     e |-> 101, f |-> 102, g |-> 103, h |-> 104, i |-> 105, j |-> 106,
     k |-> 107, l |-> 108, m |-> 109, n |-> 110, o |-> 111, p |-> 112,
     q |-> 113, r |-> 114, s |-> 115, t |-> 116, u |-> 117, v |-> 118,
     w |-> 119, x |-> 120, y |-> 121, z |-> 122]

(* enum S3_RESPONSE_NODE, without the prefix S3_RESPONSE_NODE_ and without  *)
(* the last enumerator. *)
S3_RESPONSE_NODE ==
    << <<"B", "U", "C", "K", "E", "T">>, <<"C", "O", "D", "E">>,
       <<"C", "O", "M", "M", "O", "N", "_", "P", "R", "E", "F", "I", "X", "E", "S">>,
       <<"C", "O", "N", "T", "E", "N", "T", "S">>,
       <<"C", "R", "E", "A", "T", "I", "O", "N", "_", "D", "A", "T", "E">>,
       <<"E", "T", "A", "G">>, <<"E", "R", "R", "O", "R">>,
       <<"H", "O", "S", "T", "_", "I", "D">>,
       <<"I", "S", "_", "T", "R", "U", "N", "C", "A", "T", "E", "D">>,
       <<"K", "E", "Y">>,
       <<"L", "A", "S", "T", "_", "M", "O", "D", "I", "F", "I", "E", "D">>,
       <<"M", "E", "S", "S", "A", "G", "E">>, <<"N", "A", "M", "E">>,
       <<"N", "E", "X", "T", "_", "M", "A", "R", "K", "E", "R">>,
       <<"P", "R", "E", "F", "I", "X">>,
       <<"R", "E", "Q", "U", "E", "S", "T", "_", "I", "D">>,
       <<"S", "I", "Z", "E">>, <<"U", "P", "L", "O", "A", "D">>,
       <<"U", "P", "L", "O", "A", "D", "_", "I", "D">> >>

S3_RESPONSE_NODE_LAST == Len(S3_RESPONSE_NODE)

s_S3ResponseNodeStrings ==
    << <<"B", "u", "c", "k", "e", "t">>, <<"C", "o", "d", "e">>,
       <<"C", "o", "m", "m", "o", "n", "P", "r", "e", "f", "i", "x", "e", "s">>,
       <<"C", "o", "n", "t", "e", "n", "t", "s">>,
       <<"C", "r", "e", "a", "t", "i", "o", "n", "D", "a", "t", "e">>,
       <<"E", "T", "a", "g">>, <<"E", "r", "r", "o", "r">>,
       <<"H", "o", "s", "t", "I", "d">>,
       <<"I", "s", "T", "r", "u", "n", "c", "a", "t", "e", "d">>,
       <<"K", "e", "y">>,
       <<"L", "a", "s", "t", "M", "o", "d", "i", "f", "i", "e", "d">>,
       <<"M", "e", "s", "s", "a", "g", "e">>, <<"N", "a", "m", "e">>,
       <<"N", "e", "x", "t", "M", "a", "r", "k", "e", "r">>,
       <<"P", "r", "e", "f", "i", "x">>,
       <<"R", "e", "q", "u", "e", "s", "t", "I", "d">>,
       <<"S", "i", "z", "e">>, <<"U", "p", "l", "o", "a", "d">>,
       <<"U", "p", "l", "o", "a", "d", "I", "d">> >>

byteAt(s, i) == IF i <= Len(s) THEN ascii[s[i]] ELSE 0

(* The sign of strcmp( s1, s2 ), comparing from character i on. *)
RECURSIVE strcmpFrom(_, _, _)
strcmpFrom(s1, s2, i) ==
    IF byteAt(s1, i) # byteAt(s2, i)
    THEN IF byteAt(s1, i) < byteAt(s2, i) THEN -1 ELSE 1
    ELSE IF byteAt(s1, i) = 0 THEN 0
    ELSE strcmpFrom(s1, s2, i + 1)

strcmp(s1, s2) == strcmpFrom(s1, s2, 1)

strless(v1, v2) == strcmp(v1, v2) < 0

(* std::lower_bound( first, last, search, strless ) over the table: first   *)
(* is the 0-based position, count the length of the range still searched.  *)
RECURSIVE lower_bound(_, _, _)
lower_bound(first, count, search) ==
    IF count <= 0 THEN first
    ELSE LET step == count \div 2
             it == first + step
         IN IF strless(s_S3ResponseNodeStrings[it + 1], search)
            THEN lower_bound(it + 1, count - (step + 1), search)
            ELSE lower_bound(first, step, search)

(* Variant of the lookup that returns the position found without comparing  *)
(* the name at that position. *)
getResponseNodeIndex_noCompare(nodeName) ==
    LET last == S3_RESPONSE_NODE_LAST
        it == lower_bound(0, Len(s_S3ResponseNodeStrings), nodeName)
    IN IF it = last THEN S3_RESPONSE_NODE_LAST ELSE it

(* getResponseNode: the index of the node, S3_RESPONSE_NODE_LAST if the    *)
(* name is not in the table. *)
getResponseNodeIndex(nodeName) ==
    LET last == S3_RESPONSE_NODE_LAST
        it == lower_bound(0, Len(s_S3ResponseNodeStrings), nodeName)
    IN IF it = last \/ strcmp(nodeName, s_S3ResponseNodeStrings[it + 1]) # 0
       THEN S3_RESPONSE_NODE_LAST
       ELSE it

(* The names looked up: every tag, every proper prefix of a tag (the empty  *)
(* name included), and every tag with one more character. *)
TagSet == {s_S3ResponseNodeStrings[i] : i \in 1 .. Len(s_S3ResponseNodeStrings)}

NodeNames ==
    TagSet
    \cup UNION {{SubSeq(t, 1, n) : n \in 0 .. (Len(t) - 1)} : t \in TagSet}
    \cup {t \o <<c>> : t \in TagSet, c \in {"A", "I", "d", "s", "z"}}
    \cup {<<"k", "e", "y">>, <<"Z">>, <<"A">>}

lookup(nodeName) ==
    /\ xfer.pc = "idle"
    /\ xfer' = [pc |-> "found", nodeName |-> nodeName,
                node |-> getResponseNodeIndex(nodeName)]
    /\ UNCHANGED <<connVars, lastCall, wait, fair>>

lookupReturn ==
    /\ xfer.pc = "found"
    /\ xfer' = [pc |-> "idle"]
    /\ UNCHANGED <<connVars, lastCall, wait, fair>>

InitNode ==
    /\ InitConn
    /\ fair = NoFair
    /\ xfer = [pc |-> "idle"]

NextNode ==
    \/ \E nodeName \in NodeNames : lookup(nodeName)
    \/ lookupReturn

SpecNode == InitNode /\ [][NextNode]_vars

(* The bytes of a name in upper case, "_" left out. *)
upperBytes(s) ==
    LET kept == SelectSeq(s, LAMBDA c : c # "_")
    IN [i \in 1 .. Len(kept) |->
           IF ascii[kept[i]] >= 97 THEN ascii[kept[i]] - 32 ELSE ascii[kept[i]]]

(* C33: the table of tags is strictly sorted in the order of the search's   *)
(* comparison (strcmp) and has one tag per enumerator, in the same order;   *)
(* the lookup of a name returns index i exactly when the name equals the    *)
(* i-th tag and S3_RESPONSE_NODE_LAST for every other name, prefixes and    *)
(* extensions of tags included.                                             *)
C33_TagLookup ==
    /\ Len(s_S3ResponseNodeStrings) = S3_RESPONSE_NODE_LAST
    /\ \A i \in 1 .. (Len(s_S3ResponseNodeStrings) - 1) :
          strcmp(s_S3ResponseNodeStrings[i], s_S3ResponseNodeStrings[i + 1]) < 0
    /\ \A i \in 1 .. Len(s_S3ResponseNodeStrings) :
          upperBytes(s_S3ResponseNodeStrings[i]) = upperBytes(S3_RESPONSE_NODE[i])
    /\ xfer.pc = "found" =>
          /\ \A i \in 1 .. Len(s_S3ResponseNodeStrings) :
                (xfer.node = i - 1) <=> (xfer.nodeName = s_S3ResponseNodeStrings[i])
          /\ xfer.nodeName \notin TagSet => xfer.node = S3_RESPONSE_NODE_LAST

(* "Upload" was looked up and found at its own index, not at UploadId's. *)
C33_WitnessUpload ==
    /\ xfer.pc = "found"
    /\ xfer.nodeName = <<"U", "p", "l", "o", "a", "d">>
    /\ xfer.node = 17

(* A name that extends a tag was looked up and not found. *)
C33_WitnessExtension ==
    /\ xfer.pc = "found"
    /\ xfer.nodeName = <<"K", "e", "y", "s">>
    /\ xfer.node = S3_RESPONSE_NODE_LAST

(* C34: the caller's sink of a GET is called only with the body of a       *)
(* response whose status line was classified Success, whatever header      *)
(* lines the transfer delivered before (several status lines included);    *)
(* the body of a failure goes to the XML parser or to writeNoop and leaves  *)
(* loadedContentLength unchanged.                                           *)
C34_SinkOnlyOnSuccess ==
    (xfer.pc \in {"running", "aborted", "finished"} /\ xfer.verb = "GET") =>
        /\ xfer.lastCb.name = "binary" => xfer.status = "Success"
        /\ xfer.status # "Success" => xfer.sunk = 0 /\ xfer.loaded = 0

(* A status line classified Success was followed by one classified          *)
(* HttpFailure, and a body chunk was passed to the sink.                    *)
C34_WitnessTwoStatusLines ==
    /\ xfer.pc = "running" /\ xfer.verb = "GET"
    /\ xfer.status = "HttpFailure" /\ xfer.httpStatus = "405 Method Not Allowed"
    /\ xfer.lastCb.name = "binary" /\ xfer.sunk = 2 /\ xfer.loaded = 2

(***************************************************************************)
(* Part XIV.  The XML body of a response passed in chunks.  The body is a  *)
(* sequence of tokens (start tag, text, end tag); a chunk is a run of       *)
(* tokens.  Under SpecChunk xfer has pc = "body" and the fields of Part IV's *)
(* hooks, with                                                              *)
(*   ctx      m_ctx # NULL                                                  *)
(*   parser   the state of the context m_ctx points to: the elements it has *)
(*            open, whether it has seen a root element, and dead once it    *)
(*            met text that is not well-formed (it reports nothing more)    *)
(*   pos      the tokens of the body passed so far                          *)
(* and, as history: status0, chunks, created and freed (parser contexts     *)
(* created and freed), lost (contexts whose only pointer was overwritten),  *)
(* nullParse (xmlParseChunk was called with m_ctx = NULL).                  *)
(***************************************************************************)

Tok(k, v) == [k |-> k, v |-> v]

(* <Error><Code>c</Code><Message>m</Message><RequestId>r</RequestId>        *)
(* <HostId>h</HostId></Error>                                               *)
ErrorDoc ==
    << Tok("start", "Error"),
       Tok("start", "Code"), Tok("chars", "c"), Tok("end", ""),
       Tok("start", "Message"), Tok("chars", "m"), Tok("end", ""),
       Tok("start", "RequestId"), Tok("chars", "r"), Tok("end", ""),
       Tok("start", "HostId"), Tok("chars", "h"), Tok("end", ""),
       Tok("end", "") >>

(* xmlCreatePushParserCtxt *)
NewParser == [open |-> << >>, seenRoot |-> FALSE, dead |-> FALSE]

(* The context parses one token and calls the hook of the event. *)
parseToken(r, tok) ==
    IF r.parser.dead \/ r.error # NULL THEN r
    ELSE IF tok.k = "start"
    THEN IF r.parser.seenRoot /\ r.parser.open = << >>
         THEN [r EXCEPT !.parser.dead = TRUE]
         ELSE startXmlElementImpl(
                  [r EXCEPT !.parser.open = Append(@, tok.v),
                            !.parser.seenRoot = TRUE], tok.v)
    ELSE IF r.parser.open = << >>
    THEN [r EXCEPT !.parser.dead = TRUE]
    ELSE IF tok.k = "chars"
    THEN setXmlValueImpl(r, tok.v)
    ELSE endXmlElementImpl(
             [r EXCEPT !.parser.open = SubSeq(@, 1, Len(@) - 1)])

(* xmlParseChunk( m_ctx, chunkData, size, 0 ) *)
RECURSIVE xmlParseChunk(_, _)
xmlParseChunk(r, toks) ==
    IF toks = << >> THEN r
    ELSE xmlParseChunk(parseToken(r, Head(toks)), Tail(toks))

(* S3Request::handleXmlPayload_ for a chunk: && binds tighter than ||, so   *)
(* the context is created when there is none and the status is Success or  *)
(* HttpResourceNotFound, and whenever the status is HttpOrAwsFailure.       *)
handleXmlChunk(r, toks) ==
    LET create == \/ ~r.ctx /\ r.status \in {"Success", "HttpResourceNotFound"}
                  \/ r.status = "HttpOrAwsFailure"
        r1 == IF create
              THEN [r EXCEPT !.ctx = TRUE, !.parser = NewParser,
                             !.created = @ + 1,
                             !.lost = IF r.ctx THEN @ + 1 ELSE @]
              ELSE r
        r2 == [r1 EXCEPT !.chunks = @ + 1, !.pos = @ + Len(toks)]
    IN IF r2.ctx THEN xmlParseChunk(r2, toks)
       ELSE [r2 EXCEPT !.nullParse = TRUE]

(* The request when its first body chunk arrives: S3Request::S3Request and  *)
(* the status the header lines left. *)
BodyBegins(st) ==
    [pc |-> "body", status |-> st, status0 |-> st,
     errorCode |-> << >>, errorMessage |-> << >>,
     requestId |-> << >>, hostId |-> << >>,
     stack |-> << >>, error |-> NULL,
     ctx |-> FALSE, parser |-> NewParser, pos |-> 0, chunks |-> 0,
     created |-> 0, freed |-> 0, lost |-> 0, nullParse |-> FALSE]

chunkStart(st) ==
    /\ xfer.pc = "idle"
    /\ xfer' = BodyBegins(st)
    /\ UNCHANGED <<connVars, lastCall, wait, fair>>

(* The engine passes the next n tokens of the body to the write callback. *)
chunkWrite(n) ==
    /\ xfer.pc = "body" /\ xfer.error = NULL
    /\ n >= 1 /\ xfer.pos + n <= Len(ErrorDoc)
    /\ xfer' = handleXmlChunk(xfer, SubSeq(ErrorDoc, xfer.pos + 1, xfer.pos + n))
    /\ UNCHANGED <<connVars, lastCall, wait, fair>>

(* S3Request::complete: the context, if any, is freed and m_ctx cleared. *)
chunkComplete ==
    /\ xfer.pc = "body"
    /\ xfer' = [xfer EXCEPT !.pc = "completed", !.ctx = FALSE,
                            !.freed = IF xfer.ctx THEN @ + 1 ELSE @]
    /\ UNCHANGED <<connVars, lastCall, wait, fair>>

(* S3Request::~S3Request, after complete or without it (cancelAsync). *)
chunkDestroy ==
    /\ xfer.pc \in {"body", "completed"}
    /\ xfer' = [xfer EXCEPT !.pc = "destroyed", !.ctx = FALSE,
                            !.freed = IF xfer.ctx THEN @ + 1 ELSE @]
    /\ UNCHANGED <<connVars, lastCall, wait, fair>>

InitChunk ==
    /\ InitConn
    /\ fair = NoFair
    /\ xfer = [pc |-> "idle"]

NextChunk ==
    \/ \E st \in {"Success", "HttpResourceNotFound", "HttpOrAwsFailure",
                  "HttpFailure"} : chunkStart(st)
    \/ \E n \in 1 .. Len(ErrorDoc) : chunkWrite(n)
    \/ chunkComplete
    \/ chunkDestroy

SpecChunk == InitChunk /\ [][NextChunk]_vars

(* What the request holds of an error response. *)
errorOutcome(r) ==
    [status |-> r.status, errorCode |-> r.errorCode,
     errorMessage |-> r.errorMessage, requestId |-> r.requestId,
     hostId |-> r.hostId]

(* C35: for a response with the status HttpResourceNotFound or             *)
(* HttpOrAwsFailure, the classification, code, message, request id and     *)
(* host id after the whole body are those of the body passed as a single    *)
(* chunk, however the engine split the body into chunks.                    *)
C35_ChunkingIndependent ==
    (/\ xfer.pc \in {"body", "completed"}
     /\ xfer.status0 \in {"HttpResourceNotFound", "HttpOrAwsFailure"}
     /\ xfer.pos = Len(ErrorDoc)) =>
        errorOutcome(xfer) =
            errorOutcome(handleXmlChunk(BodyBegins(xfer.status0), ErrorDoc))

(* A 403 whose body came in two chunks, cut after <Error>, was completed.  *)
C35_WitnessTwoChunks ==
    /\ xfer.pc = "completed" /\ xfer.status0 = "HttpOrAwsFailure"
    /\ xfer.pos = Len(ErrorDoc) /\ xfer.chunks = 2
    /\ xfer.errorCode = <<"c">> /\ xfer.errorMessage = << >>

(* C36: a request has at most one parser context: it is created on the     *)
(* first chunk of an XML body and used for every later chunk whatever the   *)
(* status has become, it is freed exactly once, by complete or by the       *)
(* destructor, and the XML callback never parses without a context.         *)
C36_OneParserContext ==
    xfer.pc \in {"body", "completed", "destroyed"} =>
        /\ xfer.created <= 1
        /\ xfer.lost = 0
        /\ ~xfer.nullParse
        /\ xfer.chunks >= 1 => xfer.created = 1
        /\ xfer.pc = "destroyed" => xfer.freed = xfer.created /\ ~xfer.ctx

(* A second context was created for the second chunk of a 403. *)
C36_WitnessSecondContext ==
    /\ xfer.pc = "destroyed" /\ xfer.status0 = "HttpOrAwsFailure"
    /\ xfer.created = 2 /\ xfer.freed = 1 /\ xfer.lost = 1

(* The body of a response classified HttpFailure was parsed with no         *)
(* context. *)
C36_WitnessNoContext ==
    /\ xfer.pc = "body" /\ xfer.status0 = "HttpFailure"
    /\ xfer.nullParse /\ xfer.created = 0

(***************************************************************************)
(* Part XV.  IsTruncated of a listing.  A text is the sequence of its      *)
(* characters and reaches onSetXmlValue in one or more fragments.  Under    *)
(* SpecTrunc xfer has pc = "listing" and                                    *)
(*   request      "listObjects" or "listMultipartUploads"                   *)
(*   stack        m_stack[ 0 .. m_stackTop - 1 ]                            *)
(*   isTruncated  m_responseDetails.isTruncated                             *)
(* and, as history: text (the text of the IsTruncated element of the body), *)
(* pos (its characters passed so far), frags (calls of the hook), ended     *)
(* (the element was closed).                                                *)
(***************************************************************************)

(* S3ListObjectsRequest::onSetXmlValue, case S3_RESPONSE_NODE_IS_TRUNCATED. *)
S3ListObjectsRequest_onSetXmlValue(r, value) ==
    IF Len(r.stack) < 2 THEN r
    ELSE IF r.stack[Len(r.stack)] = "IsTruncated"
    THEN [r EXCEPT !.isTruncated =
                      (Len(value) = 4 /\ value = <<"t", "r", "u", "e">>)]
    ELSE r

(* S3ListMultipartUploadsRequest::onSetXmlValue, same case. *)
S3ListMultipartUploadsRequest_onSetXmlValue(r, value) ==
    IF Len(r.stack) < 2 THEN r
    ELSE IF r.stack[Len(r.stack)] = "IsTruncated"
    THEN [r EXCEPT !.isTruncated =
                      (Len(value) = 4 /\ value = <<"t", "r", "u", "e">>)]
    ELSE r

(* The texts a server may write into IsTruncated. *)
TruncTexts ==
    { <<"t", "r", "u", "e">>, <<"f", "a", "l", "s", "e">>, <<"t", "r", "u">>,
      <<"T", "r", "u", "e">>, <<"t", "r", "u", "e", "e">>, << >> }

(* The response of a list request once the parser has reported the start of *)
(* <IsTruncated> under the root element. *)
truncOpen(request, text) ==
    /\ xfer.pc = "idle"
    /\ xfer' = [pc |-> "listing", request |-> request,
                stack |-> <<"LAST", "IsTruncated">>, isTruncated |-> FALSE,
                text |-> text, pos |-> 0, frags |-> 0, ended |-> FALSE]
    /\ UNCHANGED <<connVars, lastCall, wait, fair>>

(* The parser passes the next n characters of the text. *)
truncChars(n) ==
    /\ xfer.pc = "listing" /\ ~xfer.ended
    /\ n >= 1 /\ xfer.pos + n <= Len(xfer.text)
    /\ LET value == SubSeq(xfer.text, xfer.pos + 1, xfer.pos + n)
           r == [xfer EXCEPT !.pos = @ + n, !.frags = @ + 1]
       IN xfer' = IF xfer.request = "listObjects"
                  THEN S3ListObjectsRequest_onSetXmlValue(r, value)
                  ELSE S3ListMultipartUploadsRequest_onSetXmlValue(r, value)
    /\ UNCHANGED <<connVars, lastCall, wait, fair>>

(* </IsTruncated> *)
truncClose ==
    /\ xfer.pc = "listing" /\ ~xfer.ended
    /\ xfer.pos = Len(xfer.text)
    /\ xfer' = [xfer EXCEPT !.ended = TRUE,
                            !.stack = SubSeq(@, 1, Len(@) - 1)]
    /\ UNCHANGED <<connVars, lastCall, wait, fair>>

(* listAllObjects: do { listObjects( ... ) } while( response.isTruncated ) *)
listAllContinues(response) == response.isTruncated

truncReturn ==
    /\ xfer.pc = "listing" /\ xfer.ended
    /\ xfer' = [pc |-> "idle"]
    /\ UNCHANGED <<connVars, lastCall, wait, fair>>

InitTrunc ==
    /\ InitConn
    /\ fair = NoFair
    /\ xfer = [pc |-> "idle"]

NextTrunc ==
    \/ \E request \in {"listObjects", "listMultipartUploads"},
          text \in TruncTexts : truncOpen(request, text)
    \/ \E txt \in TruncTexts : \E n \in 1 .. Len(txt) : truncChars(n)
    \/ truncClose
    \/ truncReturn

SpecTrunc == InitTrunc /\ [][NextTrunc]_vars

(* C37: isTruncated of listObjects and of listMultipartUploads is true      *)
(* exactly when the text of <IsTruncated> is "true", in whatever fragments  *)
(* the parser passed the text, so that listAllObjects goes on paging        *)
(* whenever the server reports more.                                        *)
C37_IsTruncatedIffTrue ==
    (xfer.pc = "listing" /\ xfer.ended) =>
        /\ xfer.isTruncated <=> (xfer.text = <<"t", "r", "u", "e">>)
        /\ listAllContinues(xfer) <=> (xfer.text = <<"t", "r", "u", "e">>)

(* The text "true" was passed in two fragments and the element closed. *)
C37_WitnessFragments ==
    /\ xfer.pc = "listing" /\ xfer.ended
    /\ xfer.text = <<"t", "r", "u", "e">> /\ xfer.frags = 2
    /\ ~xfer.isTruncated

(***************************************************************************)
(* Part XVI.  The headers of a request and the string that is signed.  A   *)
(* header "key: value" is a record of the key and the value, both strings  *)
(* as in Part X.  Under SpecHeaders xfer has pc "idle" or "prepared" with   *)
(* op (the operation), args (the arguments of setRequestHeaders), headers   *)
(* (the list given to CURLOPT_HTTPHEADER) and toSign.                       *)
(***************************************************************************)

s_contentTypeBinary == <<"application/octet-stream">>

(* appendRequestHeader( key, value, plist ): nothing for a null value. *)
appendRequestHeader(key, value, plist) ==
    IF ~value.set THEN plist
    ELSE Append(plist, [key |-> key, value |-> value.s])

(* The Range header of Part XI as a header of the list. *)
rangeHeader(low, high) ==
    IF setRequestHeaders_Range(low, high) = << >> THEN Null
    ELSE Str(<<"bytes=<low>-<high - 1>">>)

(* Variant of setRequestHeaders that sends the acl header under srvEncrypt. *)
setRequestHeaders_aclUnderEncrypt(a) ==
    LET sig == calcSignature(a)
        h1 == appendRequestHeader(<<"Content-MD5">>, a.contentMd5, << >>)
        h2 == appendRequestHeader(<<"Content-Type">>, a.contentType, h1)
        h3 == appendRequestHeader(<<"Date">>, Str(a.date), h2)
        h4 == IF a.srvEncrypt
              THEN appendRequestHeader(s_aclHeaderKey, Str(s_aclHeaderValue), h3)
              ELSE h3
        h5 == IF a.srvEncrypt
              THEN appendRequestHeader(s_encryptHeaderKey,
                                       Str(s_encryptHeaderValue), h4)
              ELSE h4
        h6 == appendRequestHeader(<<"Accept">>, Str(<< >>), h5)
        h7 == appendRequestHeader(<<"Range">>, rangeHeader(a.low, a.high), h6)
        h8 == appendRequestHeader(<<"Authorization">>,
                  Str(sig.signature.text \o <<"<base64 of the HMAC>">>), h7)
        h9 == appendRequestHeader(<<"Connection">>, Str(<<"Keep-Alive">>), h8)
        h10 == appendRequestHeader(<<"Expect">>, Str(<< >>), h9)
    IN [toSign |-> sig.toSign,
        headers |-> appendRequestHeader(<<"Transfer-Encoding">>, Str(<< >>), h10)]

(* setRequestHeaders: the signature is calculated from the arguments and    *)
(* the date just formatted, then the headers are appended.                  *)
setRequestHeaders(a) ==
    LET sig == calcSignature(a)
        h1 == appendRequestHeader(<<"Content-MD5">>, a.contentMd5, << >>)
        h2 == appendRequestHeader(<<"Content-Type">>, a.contentType, h1)
        h3 == appendRequestHeader(<<"Date">>, Str(a.date), h2)
        h4 == IF a.makePublic
              THEN appendRequestHeader(s_aclHeaderKey, Str(s_aclHeaderValue), h3)
              ELSE h3
        h5 == IF a.srvEncrypt
              THEN appendRequestHeader(s_encryptHeaderKey,
                                       Str(s_encryptHeaderValue), h4)
              ELSE h4
        h6 == appendRequestHeader(<<"Accept">>, Str(<< >>), h5)
        h7 == appendRequestHeader(<<"Range">>, rangeHeader(a.low, a.high), h6)
        h8 == appendRequestHeader(<<"Authorization">>,
                  Str(sig.signature.text \o <<"<base64 of the HMAC>">>), h7)
        h9 == appendRequestHeader(<<"Connection">>, Str(<<"Keep-Alive">>), h8)
        h10 == appendRequestHeader(<<"Expect">>, Str(<< >>), h9)
    IN [toSign |-> sig.toSign,
        headers |-> appendRequestHeader(<<"Transfer-Encoding">>, Str(<< >>), h10)]

(* S3Connection::prepare: contentMd5 is 0, the verb is the request's, the   *)
(* date is the clock's, the rest is passed on from init.                    *)
prepareHeaders(httpVerb, contentType, makePublic, useSrvEncrypt, range, env) ==
    [action |-> httpVerb, contentMd5 |-> Null, contentType |-> contentType,
     date |-> env.date, makePublic |-> makePublic, srvEncrypt |-> useSrvEncrypt,
     isWalrus |-> env.isWalrus, bucketName |-> Str(<<"<bucket>">>),
     key |-> Str(env.key), accKey |-> <<"<access key>">>,
     secKey |-> <<"<secret key>">>, low |-> range.low, high |-> range.high]

(* The default arguments of init: no content type, not public, not          *)
(* encrypted, no range. *)
init_defaults ==
    [contentType |-> Null, makePublic |-> FALSE, useSrvEncrypt |-> FALSE,
     range |-> init_defaultRange]

orBinary(contentType) ==
    IF contentType.set THEN contentType ELSE Str(s_contentTypeBinary)

(* The arguments that each operation passes to init. *)
headerArgs(op, makePublic, useSrvEncrypt, contentType, env) ==
    CASE op = "put" ->
            prepareHeaders(<<"PUT">>, orBinary(contentType), makePublic,
                           useSrvEncrypt, init_defaults.range, env)
      [] op = "pendPut" ->
            prepareHeaders(<<"PUT">>, Str(s_contentTypeBinary), makePublic,
                           useSrvEncrypt, init_defaults.range, env)
      [] op = "putPart" ->
            prepareHeaders(<<"PUT">>, orBinary(Null), FALSE, FALSE,
                           init_defaults.range, env)
      [] op = "initiateMultipartUpload" ->
            prepareHeaders(<<"POST">>, orBinary(contentType), makePublic,
                           useSrvEncrypt, init_defaults.range, env)
      [] op = "completeMultipartUpload" ->
            prepareHeaders(<<"POST">>, Str(s_contentTypeBinary),
                           init_defaults.makePublic, init_defaults.useSrvEncrypt,
                           init_defaults.range, env)
      [] op = "get" ->
            prepareHeaders(<<"GET">>, init_defaults.contentType,
                           init_defaults.makePublic, init_defaults.useSrvEncrypt,
                           init_defaults.range, env)

HeaderOps == {"put", "pendPut", "putPart", "initiateMultipartUpload",
              "completeMultipartUpload", "get"}

(* The operations that take makePublic and useSrvEncrypt, and a content     *)
(* type. *)
takesFlags(op) == op \in {"put", "pendPut", "initiateMultipartUpload"}
takesType(op) == op \in {"put", "initiateMultipartUpload"}

(* The connection's kind, the clock and the key of the call. *)
HeaderEnvs ==
    [isWalrus : BOOLEAN, date : {<<"<date 1>">>, <<"<date 2>">>},
     key : {<<"<key>">>, <<"<dir>", "/", "<key>">>}]

request(op, makePublic, useSrvEncrypt, contentType, env) ==
    /\ xfer.pc = "idle"
    /\ ~takesFlags(op) => ~makePublic /\ ~useSrvEncrypt
    /\ ~takesType(op) => contentType = Null
    /\ op \in {"putPart", "initiateMultipartUpload", "completeMultipartUpload"}
          => ~env.isWalrus
    /\ LET a == headerArgs(op, makePublic, useSrvEncrypt, contentType, env)
           r == setRequestHeaders(a)
       IN xfer' = [pc |-> "prepared", op |-> op, args |-> a,
                   makePublic |-> makePublic, useSrvEncrypt |-> useSrvEncrypt,
                   toSign |-> r.toSign, headers |-> r.headers]
    /\ UNCHANGED <<connVars, lastCall, wait, fair>>

requestReturn ==
    /\ xfer.pc = "prepared"
    /\ xfer' = [pc |-> "idle"]
    /\ UNCHANGED <<connVars, lastCall, wait, fair>>

InitHeaders ==
    /\ InitConn
    /\ fair = NoFair
    /\ xfer = [pc |-> "idle"]

NextHeaders ==
    \/ \E op \in HeaderOps, makePublic \in BOOLEAN, useSrvEncrypt \in BOOLEAN,
          contentType \in OptStrings({<< >>, <<"text/plain">>}),
          env \in HeaderEnvs :
          request(op, makePublic, useSrvEncrypt, contentType, env)
    \/ requestReturn

SpecHeaders == InitHeaders /\ [][NextHeaders]_vars

(* The lines of a string to sign: the pieces between the newlines. *)
RECURSIVE linesOf(_, _)
linesOf(s, cur) ==
    IF s = << >> THEN <<cur>>
    ELSE IF Head(s) = "\n" THEN <<cur>> \o linesOf(Tail(s), << >>)
    ELSE linesOf(Tail(s), Append(cur, Head(s)))

(* The values sent in the headers with a key. *)
sentValues(headers, key) ==
    {headers[i].value : i \in {j \in 1 .. Len(headers) : headers[j].key = key}}

headerCount(headers, key) ==
    Cardinality({j \in 1 .. Len(headers) : headers[j].key = key})

(* C38: for every request the Date and the Content-Type in the string to    *)
(* sign are the strings sent in the Date and Content-Type headers,          *)
(* "x-amz-acl: public-read" is sent exactly when it is signed, which is     *)
(* when makePublic is asked for, "x-amz-server-side-encryption: AES256" is  *)
(* sent exactly when it is signed, which is when encryption is asked for,   *)
(* and putPart sends and signs neither of the two.                          *)
C38_SignedEqualsSent ==
    xfer.pc = "prepared" =>
        LET lines == linesOf(xfer.toSign, << >>)
            hs == xfer.headers
            signedAcl == \E i \in 5 .. Len(lines) :
                            lines[i] = <<"x-amz-acl", ":", "public-read">>
            signedEnc == \E i \in 5 .. Len(lines) :
                            lines[i] = <<"x-amz-server-side-encryption", ":", "AES256">>
            sentAcl == <<"public-read">> \in sentValues(hs, <<"x-amz-acl">>)
            sentEnc == <<"AES256">>
                          \in sentValues(hs, <<"x-amz-server-side-encryption">>)
        IN /\ sentValues(hs, <<"Date">>) = {lines[4]}
           /\ headerCount(hs, <<"Date">>) = 1
           /\ IF headerCount(hs, <<"Content-Type">>) = 0
              THEN lines[3] = << >>
              ELSE /\ headerCount(hs, <<"Content-Type">>) = 1
                   /\ sentValues(hs, <<"Content-Type">>) = {lines[3]}
           /\ sentAcl <=> signedAcl
           /\ signedAcl <=> xfer.makePublic
           /\ headerCount(hs, <<"x-amz-acl">>) <= 1
           /\ sentEnc <=> signedEnc
           /\ signedEnc <=> xfer.useSrvEncrypt
           /\ headerCount(hs, <<"x-amz-server-side-encryption">>) <= 1
           /\ xfer.op = "putPart" => ~sentAcl /\ ~signedAcl /\ ~sentEnc /\ ~signedEnc

(* A public, encrypted put with a content type was prepared. *)
C38_WitnessPublicPut ==
    /\ xfer.pc = "prepared" /\ xfer.op = "put"
    /\ xfer.makePublic /\ xfer.useSrvEncrypt
    /\ <<"text/plain">> \in sentValues(xfer.headers, <<"Content-Type">>)
    /\ <<"public-read">> \in sentValues(xfer.headers, <<"x-amz-acl">>)

(* putPart was prepared. *)
C38_WitnessPutPart ==
    /\ xfer.pc = "prepared" /\ xfer.op = "putPart"
    /\ sentValues(xfer.headers, <<"Content-Type">>) = {s_contentTypeBinary}

(***************************************************************************)
(* Part XVII.  PUT from a caller's buffer: S3PutRequest with its built-in  *)
(* S3PutRequestBufferUploader.  Under SpecUpload xfer is the request record *)
(* of Part II with, in addition:                                            *)
(*   size, offset   the uploader's fields                                   *)
(*   chunkBuf       what the last call wrote into the engine's buffer       *)
(*   out, reads     history: the bytes yielded so far, the calls made       *)
(*   before         history: offset before the last call                    *)
(* Byte i of the caller's buffer (counted from 1) has the value i.          *)
(***************************************************************************)

MaxReads == 5            \* calls of the upload callback in one transfer

(* Variant of onUpload that copies from the start of the buffer. *)
onUpload_fromStart(r, chunkSize) ==
    IF r.size = 0 THEN [ret |-> 0, r |-> r]
    ELSE LET toCopy == min(size_t(r.size - r.offset), chunkSize) IN
         [ret |-> toCopy,
          r |-> [r EXCEPT !.chunkBuf = [i \in 1 .. toCopy |-> i],
                          !.offset = @ + toCopy]]

(* S3PutRequestBufferUploader::onUpload( chunkBuf, chunkSize ): the value   *)
(* returned, the uploader and the engine's buffer after it.                 *)
onUpload(r, chunkSize) ==
    IF r.size = 0 THEN [ret |-> 0, r |-> r]
    ELSE LET toCopy == min(size_t(r.size - r.offset), chunkSize) IN
         [ret |-> toCopy,
          r |-> [r EXCEPT !.chunkBuf = [i \in 1 .. toCopy |-> r.offset + i],
                          !.offset = @ + toCopy]]

(* S3PutRequest( key, data, size ) after prepare. *)
PreparedPut(size) ==
    [f \in DOMAIN Prepared("PUT")
           \cup {"size", "offset", "chunkBuf", "out", "reads", "before"} |->
        CASE f = "size" -> size
          [] f = "offset" -> 0
          [] f = "chunkBuf" -> << >>
          [] f = "out" -> << >>
          [] f = "reads" -> 0
          [] f = "before" -> 0
          [] OTHER -> Prepared("PUT")[f]]

uploadStart(size) ==
    /\ xfer.pc = "none"
    /\ xfer' = PreparedPut(size)
    /\ UNCHANGED <<connVars, lastCall, wait, fair>>

(* The engine asks for up to chunkSize bytes: handleBinaryUpload_ calls     *)
(* onUploadBinary, which calls the uploader.                                *)
uploadRead(chunkSize) ==
    /\ xfer.pc = "running" /\ xfer.reads < MaxReads
    /\ LET o == onUpload([xfer EXCEPT !.chunkBuf = << >>, !.reads = @ + 1,
                                      !.before = xfer.offset], chunkSize)
           r == handleBinaryUpload_(o.r, chunkSize, o.ret, "none", FALSE)
       IN xfer' = [r EXCEPT !.out = @ \o SubSeq(r.chunkBuf, 1, r.lastCb.ret)]
    /\ UNCHANGED <<connVars, lastCall, wait, fair>>

(* The engine ends the transfer after a call that yielded nothing. *)
uploadFinish ==
    /\ xfer.pc = "running" /\ xfer.uploadDone
    /\ engineFinish("CURLE_OK")

InitUpload == InitCb

NextUpload ==
    \/ \E size \in 0 .. MaxObject : uploadStart(size)
    \/ \E chunkSize \in 0 .. MaxChunk : uploadRead(chunkSize)
    \/ uploadFinish

SpecUpload == InitUpload /\ [][NextUpload]_vars

(* C39: the built-in source over a buffer of size bytes yields, at each     *)
(* call, min(remaining, capacity) bytes of the buffer in order from the     *)
(* current offset; the offset never exceeds size; the bytes yielded over    *)
(* the transfer are the bytes of the buffer in order, all of them once a    *)
(* call with room yielded nothing, and every call after that yields 0.      *)
C39_BufferSource ==
    (xfer.pc \in {"running", "finished"} /\ xfer.reads > 0) =>
        LET ret == xfer.lastCb.ret
            capacity == xfer.lastCb.offered
        IN /\ ret = min(xfer.size - xfer.before, capacity)
           /\ xfer.chunkBuf = [i \in 1 .. ret |-> xfer.before + i]
           /\ xfer.offset = xfer.before + ret
           /\ xfer.offset <= xfer.size
           /\ xfer.out = [i \in 1 .. xfer.offset |-> i]
           /\ (ret = 0 /\ capacity > 0) => xfer.out = [i \in 1 .. xfer.size |-> i]
           /\ xfer.before = xfer.size => ret = 0

(* A buffer of 3 bytes was read in calls of 2, 1 and 0 bytes. *)
C39_Witness ==
    /\ xfer.pc = "finished" /\ xfer.size = 3 /\ xfer.reads = 3
    /\ xfer.out = <<1, 2, 3>> /\ xfer.lastCb.ret = 0 /\ xfer.lastCb.offered = 2

(***************************************************************************)
(* Part XVIII.  The pipeline of s3put: one pass of main's loops over the   *)
(* connections of Part I.  xfer holds main's locals: pc, ConnectionCount,   *)
(* keylow, keyhigh, i, k, job (the key last pended on each connection),     *)
(* and as history retry (the connection whose completePut failed and the    *)
(* index the last retry used) and failed: the call whose assertion on the        *)
(* connection's state did not hold, "index" for an index outside cons, or   *)
(* "exception" when an exception left main.                                 *)
(***************************************************************************)

NoRetry == [k |-> -1, index |-> -1]

(* cons[ c ]->pendPut( ... ) outside a try block; r is main's state after  *)
(* the call has returned.                                                   *)
s3putPendPut(c, fail, r) ==
    IF c \notin 0 .. (xfer.ConnectionCount - 1)
    THEN s3getStop("index")
    ELSE IF asyncRequest[c] # NULL
    THEN s3getStop("pendPut")
    ELSE /\ pendConn(c, "put", "pendPut", fail)
         /\ xfer' = IF fail = "none" THEN r
                    ELSE [xfer EXCEPT !.pc = "stopped", !.failed = "exception"]

s3putStart(ConnectionCount, keylow, keyhigh) ==
    /\ xfer.pc = "idle"
    /\ xfer' = [pc |-> "first", ConnectionCount |-> ConnectionCount,
                keylow |-> keylow, keyhigh |-> keyhigh, i |-> 0, k |-> 0,
                job |-> [c \in Cons |-> 0], retry |-> NoRetry,
                failed |-> "none"]
    /\ UNCHANGED <<connVars, lastCall, wait, fair>>

(* for ( int i = 0; i < ConnectionCount; ++i ) { pendPut; job[ i ] = i; } *)
s3putFirst(fail) ==
    /\ xfer.pc = "first"
    /\ IF xfer.i < xfer.ConnectionCount
       THEN s3putPendPut(xfer.i, fail,
                         [xfer EXCEPT !.job[xfer.i] = xfer.i, !.i = @ + 1])
       ELSE /\ fail = "none"
            /\ xfer' = [xfer EXCEPT !.pc = "loop", !.i = xfer.keylow]
            /\ UNCHANGED <<connVars, lastCall, wait>>
    /\ UNCHANGED fair

(* int k = S3Connection::waitAny( cons, ConnectionCount, i % ConnectionCount ) *)
s3putWaitAny ==
    /\ xfer.pc = "loop" /\ xfer.i < xfer.keyhigh
    /\ Ready /\ lastCall.op # "waitAny"
    /\ IF tooMany(xfer.ConnectionCount)
          \/ \A c \in 0 .. (xfer.ConnectionCount - 1) : isAsyncPending(c)
       THEN waitAnyCall(xfer.ConnectionCount, xfer.i % xfer.ConnectionCount)
       ELSE s3getStop("waitAny")
    /\ UNCHANGED fair

s3putWaitAnyEnd(res) ==
    /\ xfer.pc = "loop"
    /\ res >= 0
    /\ waitAnyEnd(res)

(* The index of the retry: cons[ job[ k ] ]->pendPut( ... ) *)
retryIndex(r) == r.job[r.k]

(* try { cons[ k ]->completePut(); } catch ( ... ) { retry; continue; }     *)
(* resetBuffer( k, i, objectSize ); job[ k ] = i;                           *)
s3putComplete(raised) ==
    /\ xfer.pc = "loop" /\ xfer.i < xfer.keyhigh
    /\ Ready /\ lastCall.op = "waitAny"
    /\ IF lastCall.raised
       THEN /\ ~raised
            /\ s3getStop("exception")
       ELSE LET k == lastCall.ret IN
            IF asyncRequest[k] = NULL
            THEN s3getStop("completePut")
            ELSE /\ completeConn(k, "completePut", raised)
                 /\ xfer' = IF raised
                            THEN [xfer EXCEPT !.k = k, !.pc = "retry",
                                      !.retry = [k |-> k, index |->
                                                    retryIndex([xfer EXCEPT !.k = k])]]
                            ELSE [xfer EXCEPT !.k = k, !.pc = "repend",
                                              !.retry = NoRetry,
                                              !.job[k] = xfer.i]
    /\ UNCHANGED fair

(* The retry in the catch block, then continue. *)
s3putRetry(fail) ==
    /\ xfer.pc = "retry"
    /\ s3putPendPut(retryIndex(xfer), fail,
                    [xfer EXCEPT !.pc = "loop", !.i = @ + 1])
    /\ UNCHANGED fair

(* try { cons[ k ]->pendPut( ... key i ... ); } catch ( ... ) { again }     *)
s3putRepend(fail, again) ==
    /\ xfer.pc = "repend"
    /\ fail = "none" => again = "none"
    /\ IF asyncRequest[xfer.k] # NULL
       THEN s3getStop("pendPut")
       ELSE /\ pendConn(xfer.k, "put", "pendPut",
                        IF fail = "none" THEN "none" ELSE again)
            /\ xfer' = IF fail = "none" \/ again = "none"
                       THEN [xfer EXCEPT !.pc = "loop", !.i = @ + 1]
                       ELSE [xfer EXCEPT !.pc = "stopped", !.failed = "exception"]
    /\ UNCHANGED fair

s3putLoopEnd ==
    /\ xfer.pc = "loop" /\ xfer.i >= xfer.keyhigh
    /\ xfer' = [xfer EXCEPT !.pc = "final", !.i = 0]
    /\ UNCHANGED <<connVars, lastCall, wait, fair>>

(* for ( int i = 0; i < ConnectionCount; ++i ) cons[ i ]->completePut(); *)
s3putFinal(raised) ==
    /\ xfer.pc = "final"
    /\ IF xfer.i < xfer.ConnectionCount
       THEN IF asyncRequest[xfer.i] = NULL
            THEN s3getStop("completePut")
            ELSE /\ completeConn(xfer.i, "completePut", raised)
                 /\ xfer' = IF raised
                            THEN [xfer EXCEPT !.pc = "stopped",
                                              !.failed = "exception"]
                            ELSE [xfer EXCEPT !.i = @ + 1]
       ELSE /\ ~raised
            /\ xfer' = [xfer EXCEPT !.pc = "done"]
            /\ UNCHANGED <<connVars, lastCall, wait>>
    /\ UNCHANGED fair

s3putTransport(c) ==
    /\ xfer.pc \in {"first", "loop", "retry", "repend", "final"}
    /\ transportFinish(c)

InitPut ==
    /\ InitConn
    /\ fair = NoFair
    /\ xfer = [pc |-> "idle"]

NextPut ==
    \/ \E ConnectionCount \in 1 .. NCon, keylow \in 0 .. MaxKeys :
          \E keyhigh \in keylow .. MaxKeys :
             s3putStart(ConnectionCount, keylow, keyhigh)
    \/ \E fail \in PendFail : s3putFirst(fail)
    \/ s3putWaitAny
    \/ \E res \in 0 .. (NCon - 1) : s3putWaitAnyEnd(res)
    \/ \E raised \in BOOLEAN : s3putComplete(raised)
    \/ \E fail \in PendFail : s3putRetry(fail)
    \/ \E fail \in PendFail, again \in PendFail : s3putRepend(fail, again)
    \/ s3putLoopEnd
    \/ \E raised \in BOOLEAN : s3putFinal(raised)
    \/ \E c \in Cons : s3putTransport(c)

SpecPut == InitPut /\ [][NextPut]_vars

(* C40: in the pipeline of s3put, when completePut on the connection k      *)
(* returned by waitAny fails, the retry pends the upload again on the same  *)
(* connection k, which has nothing pending, with an index inside cons; so   *)
(* every pendPut is on an existing connection with nothing pending and      *)
(* every following waitAny finds all connections pending.                   *)
C40_RetryOnSameConnection ==
    xfer.pc # "idle" =>
        /\ xfer.retry # NoRetry =>
              /\ xfer.retry.index = xfer.retry.k
              /\ xfer.retry.index \in 0 .. (xfer.ConnectionCount - 1)
        /\ xfer.failed \notin {"index", "pendPut", "waitAny"}

(* completePut failed on connection 0, whose last key was 2, with two       *)
(* connections.                                                             *)
C40_WitnessOutside ==
    /\ xfer.pc = "stopped" /\ xfer.failed = "index"
    /\ xfer.ConnectionCount = 2
    /\ xfer.retry = [k |-> 0, index |-> 2]

(* completePut failed on a connection whose last key is its own index and   *)
(* the retry was pended on it.                                              *)
C40_WitnessSame ==
    /\ xfer.pc = "loop" /\ xfer.retry # NoRetry
    /\ xfer.retry.index = xfer.retry.k
    /\ lastCall.op = "pendPut" /\ lastCall.con = xfer.retry.k

====
